---- MODULE Spec2Model ----
(***************************************************************************)
(* A model of the NSE stock screener backend (nse-trend-stocks/backend):   *)
(* the TechnicalEngine that augments a daily OHLCV frame with indicator    *)
(* columns, and the ScoringEngine that maps the latest rows of the         *)
(* augmented frame to a 0..120 score and a classification label.           *)
(*                                                                         *)
(* float64 values are modelled in fixed point: Num(v) stands for v/Scale,  *)
(* with NaN and the two infinities as separate kinds, and comparison and   *)
(* arithmetic following IEEE-754 (every comparison with NaN is false).     *)
(* Rows are numbered from 1, so iloc[-1] is row Len(bars) and iloc[-k] is  *)
(* row Len(bars)-k+1.                                                      *)
(***************************************************************************)
EXTENDS Integers, Sequences, FiniteSets, TLC

(* ------------------------------------------------------------------ *)
(* float64 in fixed point                                              *)
(* ------------------------------------------------------------------ *)

\* resolution of the fixed-point model of float64: Num(v) is v/Scale
Scale == 10000

NaN == [k |-> "nan", v |-> 0]
PosInf == [k |-> "inf", v |-> 1]
NegInf == [k |-> "inf", v |-> -1]
Num(x) == [k |-> "num", v |-> x]
Real(i) == Num(i * Scale)

\* pd.notna: true of every value but NaN (an infinity is not NA)
notna(a) == a.k # "nan"
IsNum(a) == a.k = "num"

Sgn(x) == IF x > 0 THEN 1 ELSE IF x < 0 THEN -1 ELSE 0
Abs(x) == IF x < 0 THEN -x ELSE x

\* from <<q, r>> with a * k = q * b + r and r < b, the pair for a * (64k + d)
Digit(h, a, d, b) ==
    <<64 * h[1] + d * (a \div b) + (64 * h[2] + d * (a % b)) \div b,
      (64 * h[2] + d * (a % b)) % b>>

\* <<q, r>> with a * m = q * b + r and 0 <= r < b, for a, m >= 0 and b > 0,
\* down the four base-64 digits of m: no intermediate exceeds the larger of
\* 128 b and the quotient while m < 64^4
TimesOver(a, m, b) ==
    Digit(Digit(Digit(Digit(<<0, 0>>, a, m \div 262144, b), a, (m \div 4096) % 64, b),
                a, (m \div 64) % 64, b), a, m % 64, b)

\* x * y / z rounded down, for x, y >= 0 and z > 0
MulDivNat(x, y, z) ==
    IF y = 0 \/ x <= 2147483647 \div y THEN (x * y) \div z ELSE TimesOver(x, y, z)[1]

\* a * m / b rounded towards zero, for b # 0
MulDiv(a, m, b) == Sgn(a) * Sgn(m) * Sgn(b) * MulDivNat(Abs(a), Abs(m), Abs(b))

\* the place of a value that is not NaN in the order of the floats
Ord(a) == IF a.k = "num" THEN a.v ELSE a.v * 2147483647

Gt(a, b) == notna(a) /\ notna(b) /\ Ord(a) > Ord(b)
Ge(a, b) == notna(a) /\ notna(b) /\ Ord(a) >= Ord(b)
Lt(a, b) == Gt(b, a)
Le(a, b) == Ge(b, a)

FNeg(a) == [a EXCEPT !.v = -@]
FAbs(a) == [a EXCEPT !.v = Abs(@)]

\* a + b when one of them is NaN or an infinity
AddSpecial(a, b) ==
    CASE ~notna(a) \/ ~notna(b) -> NaN
      [] IsNum(a) -> b
      [] IsNum(b) -> a
      [] OTHER -> IF a.v = b.v THEN a ELSE NaN

FAdd(a, b) == IF IsNum(a) /\ IsNum(b) THEN Num(a.v + b.v) ELSE AddSpecial(a, b)
FSub(a, b) == FAdd(a, FNeg(b))

\* a * (p/q) for the positive literal factors of the code (100, 2, 0.97, 0.995)
FTimes(a, p, q) == [a EXCEPT !.v = IF a.k = "num" THEN MulDiv(@, p, q) ELSE @]

\* a / b when the quotient is no plain number: numpy float64 division never
\* raises, x/0 is an infinity and 0/0 is NaN
QuotSpecial(a, b) ==
    CASE ~notna(a) \/ ~notna(b) -> NaN
      [] IsNum(a) /\ IsNum(b) -> IF a.v = 0 THEN NaN ELSE [k |-> "inf", v |-> Sgn(a.v)]
      [] IsNum(a) -> Num(0)
      [] IsNum(b) -> [k |-> "inf", v |-> IF b.v >= 0 THEN a.v ELSE -a.v]
      [] OTHER -> NaN

\* (a / b) * c for c = 1 and c = 100: the quotient is scaled before it is
\* rounded to the resolution, as float64 keeps the digits Scale would drop
FQuot(a, b, c) ==
    IF IsNum(a) /\ IsNum(b) /\ b.v # 0 THEN Num(MulDiv(a.v, c * Scale, b.v))
    ELSE QuotSpecial(a, b)

FDiv(a, b) == FQuot(a, b, 1)
FPercent(a, b) == FQuot(a, b, 100)

\* the largest r from base + 0 .. base + 255 with r*r <= x, when base*base <= x
SqrtLow(x, base) == base + Cardinality({l \in 1..255 : base + l <= x \div (base + l)})

\* the largest r with r*r <= x, for 0 <= x < 2^31: its high byte, then its low
ISqrt(x) == SqrtLow(x, 256 * Cardinality({h \in 1..181 : 256 * h <= x \div (256 * h)}))

\* one Newton step from r towards the square root of v * Scale
Newton(v, r) == (r + MulDiv(v, Scale, r)) \div 2

\* sqrt(v/Scale) * Scale = sqrt(v * Scale) for v >= 0: sqrt(v) * sqrt(Scale)
\* to the unit, then one Newton step
SqrtV(v) == IF v <= 0 THEN 0 ELSE Newton(v, ISqrt(v) * ISqrt(Scale))

\* the larger of two values, NaN skipped
FMax(a, b) == IF ~notna(a) \/ Gt(b, a) THEN b ELSE a

(* ------------------------------------------------------------------ *)
(* the price frame: one row per trading day                            *)
(* ------------------------------------------------------------------ *)

\* the raw columns of row i, as float64
Close(bars, i) == IF i < 1 \/ i > Len(bars) THEN NaN ELSE Real(bars[i].Close)
High(bars, i) == IF i < 1 \/ i > Len(bars) THEN NaN ELSE Real(bars[i].High)
Low(bars, i) == IF i < 1 \/ i > Len(bars) THEN NaN ELSE Real(bars[i].Low)
Volume(bars, i) == IF i < 1 \/ i > Len(bars) THEN NaN ELSE Real(bars[i].Volume)

RECURSIVE SumOver(_, _, _)
\* F(a) + ... + F(b) of integers, halving the range
SumOver(F(_), a, b) ==
    IF a > b THEN 0
    ELSE IF a = b THEN F(a)
    ELSE SumOver(F, a, (a + b) \div 2) + SumOver(F, (a + b) \div 2 + 1, b)

\* the mean of the N values w[a], .., w[b]: NaN when one of them is no number
MeanOfWindow(w, a, b) ==
    IF \E j \in a..b : ~IsNum(w[j]) THEN NaN
    ELSE LET V(j) == w[j].v IN Num(SumOver(V, a, b) \div (b - a + 1))

\* the rows a..b of a column, each of them evaluated once
Window(F(_), a, b) == [j \in a..b |-> F(j)] @@ <<>>

\* Series.rolling(window=N).mean() at row i: NaN until N rows are there
RollingMean(F(_), N, i) ==
    IF i < N THEN NaN ELSE MeanOfWindow(Window(F, i - N + 1, i), i - N + 1, i)

RECURSIVE MaxOver(_, _, _)
\* Series.max() over rows a..b: NaN is skipped, and an empty range gives NaN
MaxOver(F(_), a, b) ==
    IF a > b THEN NaN
    ELSE IF a = b THEN F(a)
    ELSE FMax(MaxOver(F, a, (a + b) \div 2), MaxOver(F, (a + b) \div 2 + 1, b))

\* Series.rolling(N).max() at row i
RollingMax(F(_), N, i) == IF i < N THEN NaN ELSE MaxOver(F, i - N + 1, i)

RECURSIVE FoldRows(_, _, _, _)
\* Step(... Step(Step(acc, a), a + 1) ..., b): a recursion that runs down the
\* rows in order, evaluated by halves
FoldRows(Step(_, _), acc, a, b) ==
    IF a > b THEN acc
    ELSE IF a = b THEN Step(acc, a)
    ELSE LET left == FoldRows(Step, acc, a, (a + b) \div 2)
         IN  IF left = left THEN FoldRows(Step, left, (a + b) \div 2 + 1, b) ELSE acc

\* one step of Series.ewm(span, adjust=False).mean():
\* y[i] = (1 - alpha) y[i-1] + alpha x[i] with alpha = 2/(span+1)
EwmStep(y, x, span) == y + MulDiv(x - y, 2, span + 1)

\* Series.ewm(span, adjust=False).mean() at row i, on the values' v: y[1] = x[1]
Ewm(V(_), span, i) ==
    LET Step(y, j) == IF j = 1 THEN V(1) ELSE EwmStep(y, V(j), span)
    IN  FoldRows(Step, 0, 1, i)

(* ------------------------------------------------------------------ *)
(* TechnicalEngine: the indicator methods, each at row i               *)
(* ------------------------------------------------------------------ *)

\* close.ewm(span=period, adjust=False).mean()
calculate_ema(bars, period, i) ==
    IF i < 1 \/ i > Len(bars) THEN NaN
    ELSE LET V(j) == bars[j].Close * Scale IN Num(Ewm(V, period, i))

\* a mean over the rows there are, as rolling(window, min_periods=1) gives
SmaOfRowsThere(bars, period, i) ==
    IF i < 1 \/ i > Len(bars) THEN NaN
    ELSE LET V(j) == bars[j].Close * Scale
             from == IF i - period + 1 > 1 THEN i - period + 1 ELSE 1
         IN  Num(SumOver(V, from, i) \div (i - from + 1))

\* close.rolling(window=period).mean()
calculate_sma(bars, period, i) ==
    IF i < 1 \/ i > Len(bars) THEN NaN
    ELSE LET C(j) == Close(bars, j) IN RollingMean(C, period, i)

\* close.diff() at row i: NaN on the first row
CloseDiff(bars, i) == FSub(Close(bars, i), Close(bars, i - 1))

\* delta.where(delta > 0, 0) and -delta.where(delta < 0, 0): NaN becomes 0
GainOf(delta) == IF Gt(delta, Num(0)) THEN delta ELSE Num(0)
LossOf(delta) == FNeg(IF Lt(delta, Num(0)) THEN delta ELSE Num(0))

\* 100 - (100 / (1 + rs))
RsiOf(rs) == FSub(Real(100), FDiv(Real(100), FAdd(Real(1), rs)))

calculate_rsi(bars, period, i) ==
    IF i < 1 \/ i > Len(bars) THEN NaN
    ELSE LET Gain(j) == GainOf(CloseDiff(bars, j))
             Loss(j) == LossOf(CloseDiff(bars, j))
         IN  RsiOf(FDiv(RollingMean(Gain, period, i), RollingMean(Loss, period, i)))

\* from ema12 and ema26 of a row and the signal of the row before:
\* <<ema12, ema26, signal>> with signal = (ema12 - ema26).ewm(span=9)
MacdNext(ema12, ema26, signal) == <<ema12, ema26, EwmStep(signal, ema12 - ema26, 9)>>

\* <<ema12, ema26, signal>> at row i, the three recursions run side by side
MacdState(bars, i) ==
    LET Step(p, j) ==
            IF j = 1 THEN <<bars[1].Close * Scale, bars[1].Close * Scale, 0>>
            ELSE MacdNext(EwmStep(p[1], bars[j].Close * Scale, 12),
                          EwmStep(p[2], bars[j].Close * Scale, 26), p[3])
    IN  FoldRows(Step, <<0, 0, 0>>, 1, i)

\* macd = ema12 - ema26, signal = macd.ewm(span=9), histogram = macd - signal
MacdOf(st) ==
    [macd |-> Num(st[1] - st[2]), signal |-> Num(st[3]),
     histogram |-> Num(st[1] - st[2] - st[3])]

calculate_macd(bars, i) ==
    IF i < 1 \/ i > Len(bars) THEN [macd |-> NaN, signal |-> NaN, histogram |-> NaN]
    ELSE MacdOf(MacdState(bars, i))

\* the true range of row i: the row-wise max of the three spreads, NaN skipped
TrueRange(bars, i) ==
    FMax(FMax(FSub(High(bars, i), Low(bars, i)),
              FAbs(FSub(High(bars, i), Close(bars, i - 1)))),
         FAbs(FSub(Low(bars, i), Close(bars, i - 1))))

\* high.diff() and -low.diff() at row i
HighDiff(bars, i) == FSub(High(bars, i), High(bars, i - 1))
LowDiff(bars, i) == FNeg(FSub(Low(bars, i), Low(bars, i - 1)))

\* move.where((move > other) & (move > 0), 0)
DirectionalMove(move, other) ==
    IF Gt(move, other) /\ Gt(move, Num(0)) THEN move ELSE Num(0)

PlusDM(bars, i) == DirectionalMove(HighDiff(bars, i), LowDiff(bars, i))
MinusDM(bars, i) == DirectionalMove(LowDiff(bars, i), HighDiff(bars, i))

\* tr.rolling(window=period).mean()
calculate_atr(bars, period, i) ==
    IF i < 1 \/ i > Len(bars) THEN NaN
    ELSE LET T(j) == TrueRange(bars, j) IN RollingMean(T, period, i)

\* 100 * (plus_dm.rolling(window=period).mean() / atr)
PlusDI(bars, period, i) ==
    IF i < 1 \/ i > Len(bars) THEN NaN
    ELSE LET P(j) == PlusDM(bars, j)
         IN  FPercent(RollingMean(P, period, i), calculate_atr(bars, period, i))

MinusDI(bars, period, i) ==
    IF i < 1 \/ i > Len(bars) THEN NaN
    ELSE LET M(j) == MinusDM(bars, j)
         IN  FPercent(RollingMean(M, period, i), calculate_atr(bars, period, i))

\* 100 * abs(plus_di - minus_di) / (plus_di + minus_di)
DXOf(plus_di, minus_di) ==
    FDiv(FTimes(FAbs(FSub(plus_di, minus_di)), 100, 1), FAdd(plus_di, minus_di))

DX(bars, period, i) == DXOf(PlusDI(bars, period, i), MinusDI(bars, period, i))

\* adx = dx.rolling(window=period).mean(); returned with +DI and -DI
calculate_adx(bars, period, i) ==
    IF i < 1 \/ i > Len(bars)
    THEN [adx |-> NaN, plus_di |-> NaN, minus_di |-> NaN]
    ELSE LET D(j) == DX(bars, period, j)
         IN  [adx |-> RollingMean(D, period, i),
              plus_di |-> PlusDI(bars, period, i),
              minus_di |-> MinusDI(bars, period, i)]

\* the square of close - mean, as a v
SquaredDeviation(close, mean) == MulDiv(close.v - mean.v, close.v - mean.v, Scale)

\* the sample standard deviation (ddof=1) of the closes of a full window
\* around their mean
StdAround(bars, mean, period, i) ==
    LET Sq(j) == SquaredDeviation(Close(bars, j), mean)
    IN  Num(SqrtV(SumOver(Sq, i - period + 1, i) \div (period - 1)))

\* close.rolling(window=period).std()
RollingStd(bars, period, i) ==
    IF i < period \/ i > Len(bars) THEN NaN
    ELSE StdAround(bars, calculate_sma(bars, period, i), period, i)

\* upper = middle + (std * std_dev), lower = middle - (std * std_dev)
BandsOf(middle, width) ==
    [upper |-> FAdd(middle, width), middle |-> middle, lower |-> FSub(middle, width)]

calculate_bollinger_bands(bars, period, std_dev, i) ==
    BandsOf(calculate_sma(bars, period, i), FTimes(RollingStd(bars, period, i), std_dev, 1))

\* np.sign(close.diff()) * volume at row i, with fillna(0) for the first row
SignedVolume(bars, j) ==
    IF j = 1 THEN 0 ELSE Sgn(bars[j].Close - bars[j - 1].Close) * bars[j].Volume * Scale

\* (np.sign(close.diff()) * volume).fillna(0).cumsum() at row i, as a v
calculate_obv(bars, i) == LET Signed(j) == SignedVolume(bars, j) IN SumOver(Signed, 1, i)

\* from the obv of a row and the mean of the row before: <<obv, mean>>
ObvNext(obv, mean) == <<obv, EwmStep(mean, obv, 20)>>

\* <<obv, obv.ewm(span=20, adjust=False).mean()>> at row i, as two v
ObvState(bars, i) ==
    LET Step(p, j) == IF j = 1 THEN <<0, 0>>
                      ELSE ObvNext(p[1] + SignedVolume(bars, j), p[2])
    IN  FoldRows(Step, <<0, 0>>, 1, i)

\* ((close - close.shift(period)) / close.shift(period)) * 100
calculate_roc(bars, period, i) ==
    FPercent(FSub(Close(bars, i), Close(bars, i - period)), Close(bars, i - period))

\* Series.pct_change(n) * 100 at row i of a column given by F:
\* (F(i) / F(i-n) - 1) * 100
PctChange(F(_), n, i) ==
    IF i - n < 1 THEN NaN ELSE FSub(FPercent(F(i), F(i - n)), Real(100))

(* ------------------------------------------------------------------ *)
(* calculate_all_indicators: the columns it assigns, each at row i     *)
(* ------------------------------------------------------------------ *)

RawColumns == {"Open", "High", "Low", "Close", "Volume"}

IndicatorColumns ==
    {"EMA_20", "SMA_50", "SMA_200", "EMA_20_slope", "SMA_50_slope", "SMA_200_slope",
     "RSI", "ROC", "MACD", "MACD_Signal", "MACD_Hist", "Hist_Momentum",
     "ADX", "Plus_DI", "Minus_DI", "DI_Spread", "ADX_Rising",
     "Vol_SMA_20", "Vol_SMA_50", "Vol_Ratio", "OBV", "OBV_EMA",
     "BB_Upper", "BB_Middle", "BB_Lower", "BB_Position",
     "ATR", "ATR_Percent", "High_52W", "High_4W", "High_2W"}

EMA_20(bars, i) == calculate_ema(bars, 20, i)
SMA_50(bars, i) == calculate_sma(bars, 50, i)
SMA_200(bars, i) == calculate_sma(bars, 200, i)

EMA_20_slope(bars, i) == LET E(j) == EMA_20(bars, j) IN PctChange(E, 5, i)
SMA_50_slope(bars, i) == LET S(j) == SMA_50(bars, j) IN PctChange(S, 5, i)
SMA_200_slope(bars, i) == LET S(j) == SMA_200(bars, j) IN PctChange(S, 5, i)

RSI(bars, i) == calculate_rsi(bars, 14, i)
ROC(bars, i) == calculate_roc(bars, 10, i)

MACD(bars, i) == calculate_macd(bars, i).macd
MACD_Signal(bars, i) == calculate_macd(bars, i).signal
MACD_Hist(bars, i) == calculate_macd(bars, i).histogram

\* histogram.diff(3)
Hist_Momentum(bars, i) == FSub(MACD_Hist(bars, i), MACD_Hist(bars, i - 3))

ADX(bars, i) == calculate_adx(bars, 14, i).adx
Plus_DI(bars, i) == PlusDI(bars, 14, i)
Minus_DI(bars, i) == MinusDI(bars, 14, i)
DI_Spread(bars, i) == FSub(PlusDI(bars, 14, i), MinusDI(bars, 14, i))

\* adx.diff(3) > 0: false when the difference is NaN
ADX_Rising(bars, i) == Gt(FSub(ADX(bars, i), ADX(bars, i - 3)), Num(0))

Vol_SMA_20(bars, i) == LET V(j) == Volume(bars, j) IN RollingMean(V, 20, i)
Vol_SMA_50(bars, i) == LET V(j) == Volume(bars, j) IN RollingMean(V, 50, i)
Vol_Ratio(bars, i) == FPercent(Volume(bars, i), Vol_SMA_20(bars, i))

OBV(bars, i) == IF i < 1 \/ i > Len(bars) THEN NaN ELSE Num(calculate_obv(bars, i))
OBV_EMA(bars, i) == IF i < 1 \/ i > Len(bars) THEN NaN ELSE Num(ObvState(bars, i)[2])

BB_Upper(bars, i) == calculate_bollinger_bands(bars, 20, 2, i).upper
BB_Middle(bars, i) == calculate_bollinger_bands(bars, 20, 2, i).middle
BB_Lower(bars, i) == calculate_bollinger_bands(bars, 20, 2, i).lower

\* a band position that is put at the middle of a band of no width
PositionOrMiddle(close, bands) ==
    IF bands.upper = bands.lower THEN Real(50)
    ELSE FPercent(FSub(close, bands.lower), FSub(bands.upper, bands.lower))

\* ((close - bb_lower) / (bb_upper - bb_lower)) * 100
PositionIn(close, bands) ==
    FPercent(FSub(close, bands.lower), FSub(bands.upper, bands.lower))

BB_Position(bars, i) == PositionIn(Close(bars, i), calculate_bollinger_bands(bars, 20, 2, i))

ATR(bars, i) == calculate_atr(bars, 14, i)
ATR_Percent(bars, i) == FPercent(ATR(bars, i), Close(bars, i))

High_52W(bars, i) == LET H(j) == High(bars, j) IN RollingMax(H, 252, i)
High_4W(bars, i) == LET H(j) == High(bars, j) IN RollingMax(H, 20, i)
High_2W(bars, i) == LET H(j) == High(bars, j) IN RollingMax(H, 10, i)

(* ------------------------------------------------------------------ *)
(* the price series handed to the engines                              *)
(* ------------------------------------------------------------------ *)

\* the close of day i of each shape of series
ShapeClose(shape, i) ==
    CASE shape = "flat" -> 100
      [] shape = "rise" -> 50 + (i * i) \div 100
      [] shape = "fall" -> 700 - 2 * i
      [] shape = "swing" -> 100 + 2 * i - 5 * (i \div 4)
      [] OTHER -> 100

ShapeVolume(vshape, i, n) ==
    CASE vshape = "const" -> 500
      [] vshape = "surge" -> IF i = n THEN 1300 ELSE 500
      [] vshape = "rising" -> 300 + 2 * i
      [] vshape = "halt" -> 0
      [] OTHER -> 500

Max2(a, b) == IF a >= b THEN a ELSE b
Min2(a, b) == IF a <= b THEN a ELSE b

\* a well-formed bar of day i: the high and the low lie one above and one
\* below the body
Bar(o, c, i, v) ==
    [Date |-> i, Open |-> o, High |-> Max2(o, c) + 1, Low |-> Min2(o, c) - 1,
     Close |-> c, Volume |-> v]

\* the bar of day i of a series of n days: the open is the close of the day
\* before
ShapeBar(shape, vshape, i, n) ==
    Bar(ShapeClose(shape, IF i = 1 THEN 1 ELSE i - 1), ShapeClose(shape, i), i,
        ShapeVolume(vshape, i, n))

\* a bar with one of the defects of an invalid price series
Defective(bar, defect) ==
    CASE defect = "dates" -> [bar EXCEPT !.Date = @ - 1]
      [] defect = "volume" -> [bar EXCEPT !.Volume = -@]
      [] defect = "ohlc" -> [bar EXCEPT !.High = bar.Low - 1]
      [] OTHER -> bar

RECURSIVE Rows(_, _, _)
\* the rows <<B(a), .., B(b)>>, built by halves
Rows(B(_), a, b) ==
    IF a > b THEN <<>>
    ELSE IF a = b THEN <<B(a)>>
    ELSE Rows(B, a, (a + b) \div 2) \o Rows(B, (a + b) \div 2 + 1, b)

\* n days of a shape, the defect on the last day
PriceSeries(shape, vshape, n, defect) ==
    LET B(i) == IF i = n THEN Defective(ShapeBar(shape, vshape, i, n), defect)
                ELSE ShapeBar(shape, vshape, i, n)
    IN  Rows(B, 1, n)

(* ------------------------------------------------------------------ *)
(* ScoringEngine: the six category rules                               *)
(* ------------------------------------------------------------------ *)

\* A frame df is [bars, cols]: its rows and the names of its columns.  The
\* value of an indicator column at a row is the function of the raw columns
\* that calculate_all_indicators assigned to it.

\* a read that looks for the columns only, whatever the number of rows
HasColumns(df, names, k) == names \subseteq df.cols

\* df[name].iloc[-k] for every name of names: a KeyError when a column is
\* missing, an IndexError when the frame has fewer than k rows
CanRead(df, names, k) == names \subseteq df.cols /\ Len(df.bars) >= k

\* the body of a try block ends by raising, with the score added so far, or
\* by running to its end
Raise(score) == [score |-> score, raised |-> TRUE]
Return(score) == [score |-> score, raised |-> FALSE]

\* points added before the rest of the block ended as r
Add(points, r) == [score |-> points + r.score, raised |-> r.raised]

\* the next statements of a try block and the rest of it: they read the
\* frame, which raises when it is not readable, and add points
Stage(readable, points, rest) == IF readable THEN Add(points, rest) ELSE Raise(0)

\* a method without a handler: what its try block raises leaves the method
NoHandler(r) == r

\* the handler "except Exception as e: logger.error(...)" of every score_*
\* method: the exception stops there and the method goes on after the try
ExceptException(r) == [score |-> r.score, raised |-> FALSE]

\* the four tiers of the price position as four separate ifs, each adding
\* its points
PricePositionSeparateIfs(current, ema20, sma50, sma200) ==
    IF notna(ema20) /\ notna(sma50) /\ notna(sma200)
    THEN (IF Gt(current, ema20) /\ Gt(ema20, sma50) /\ Gt(sma50, sma200) THEN 12 ELSE 0)
         + (IF Gt(current, sma50) /\ Gt(sma50, sma200) THEN 10 ELSE 0)
         + (IF Gt(current, sma50) THEN 7 ELSE 0)
         + (IF Gt(current, FTimes(sma50, 97, 100)) THEN 4 ELSE 0)
    ELSE 0

\* a price position whose rows on SMA50 alone ask only for SMA50
PricePositionOnSma50(current, ema20, sma50, sma200) ==
    IF Gt(current, ema20) /\ Gt(ema20, sma50) /\ Gt(sma50, sma200) THEN 12
    ELSE IF Gt(current, sma50) /\ Gt(sma50, sma200) THEN 10
    ELSE IF Gt(current, sma50) THEN 7
    ELSE IF Gt(current, FTimes(sma50, 97, 100)) THEN 4
    ELSE 0

\* Price Position (12 points)
TrendPricePosition(current, ema20, sma50, sma200) ==
    IF notna(ema20) /\ notna(sma50) /\ notna(sma200)
    THEN IF Gt(current, ema20) /\ Gt(ema20, sma50) /\ Gt(sma50, sma200) THEN 12
         ELSE IF Gt(current, sma50) /\ Gt(sma50, sma200) THEN 10
         ELSE IF Gt(current, sma50) THEN 7
         ELSE IF Gt(current, FTimes(sma50, 97, 100)) THEN 4
         ELSE 0
    ELSE 0

\* the slope tiers behind a guard on all three slopes
SlopesAllDefined(ema20s, sma50s, sma200s) ==
    IF notna(ema20s) /\ notna(sma50s) /\ notna(sma200s)
    THEN IF Gt(ema20s, Real(2)) /\ Gt(sma50s, Real(2)) /\ Gt(sma200s, Real(2)) THEN 8
         ELSE IF Gt(ema20s, Real(2)) /\ Gt(sma50s, Real(2)) THEN 6
         ELSE IF Gt(ema20s, Real(2)) THEN 3
         ELSE 0
    ELSE 0

\* MA Slopes (8 points)
TrendSlopes(ema20s, sma50s, sma200s) ==
    IF /\ notna(ema20s) /\ Gt(ema20s, Real(2))
       /\ notna(sma50s) /\ Gt(sma50s, Real(2))
       /\ notna(sma200s) /\ Gt(sma200s, Real(2)) THEN 8
    ELSE IF Gt(ema20s, Real(2)) /\ Gt(sma50s, Real(2)) THEN 6
    ELSE IF Gt(ema20s, Real(2)) THEN 3
    ELSE 0

\* the points of spacing = (ema20 - sma50) / sma50 * 100
SpacingPoints(spacing) ==
    IF Gt(spacing, Real(2)) THEN 5 ELSE IF Gt(spacing, Real(0)) THEN 3 ELSE 0

\* MA Divergence (5 points)
TrendDivergence(ema20, sma50, sma200) ==
    IF notna(ema20) /\ notna(sma50) /\ notna(sma200)
       /\ Gt(ema20, sma50) /\ Gt(sma50, sma200)
    THEN SpacingPoints(FPercent(FSub(ema20, sma50), sma50))
    ELSE 0

\* the try block of score_trend_alignment on the rows b, the last one n
TrendTry(df, b, n) ==
    Stage(CanRead(df, {"Close", "EMA_20", "SMA_50", "SMA_200"}, 1),
          TrendPricePosition(Close(b, n), EMA_20(b, n), SMA_50(b, n), SMA_200(b, n)),
    Stage(CanRead(df, {"EMA_20_slope", "SMA_50_slope", "SMA_200_slope"}, 1),
          TrendSlopes(EMA_20_slope(b, n), SMA_50_slope(b, n), SMA_200_slope(b, n))
          + TrendDivergence(EMA_20(b, n), SMA_50(b, n), SMA_200(b, n)),
    Return(0)))

TrendBody(df) == TrendTry(df, df.bars, Len(df.bars))

\* ADX (10 points)
MomentumADX(adx) ==
    IF ~notna(adx) THEN 0
    ELSE IF Gt(adx, Real(40)) THEN 10
    ELSE IF Gt(adx, Real(30)) THEN 8
    ELSE IF Gt(adx, Real(25)) THEN 6
    ELSE IF Gt(adx, Real(20)) THEN 4
    ELSE 0

\* DI Spread (5 points)
MomentumDI(di_spread, adx_rising) ==
    IF ~notna(di_spread) THEN 0
    ELSE IF Gt(di_spread, Real(10)) /\ adx_rising THEN 5
    ELSE IF Gt(di_spread, Real(5)) THEN 3
    ELSE IF Gt(di_spread, Real(0)) THEN 1
    ELSE 0

\* RSI bands that each add their points
RSIBandsAdded(rsi) ==
    IF ~notna(rsi) THEN 0
    ELSE (IF Le(Real(60), rsi) /\ Le(rsi, Real(70)) THEN 8 ELSE 0)
         + (IF Le(Real(55), rsi) /\ Le(rsi, Real(65)) THEN 6 ELSE 0)
         + (IF Le(Real(50), rsi) /\ Le(rsi, Real(60)) THEN 4 ELSE 0)
         + (IF Le(Real(45), rsi) /\ Le(rsi, Real(55)) THEN 2 ELSE 0)

\* RSI (8 points)
MomentumRSI(rsi) ==
    IF ~notna(rsi) THEN 0
    ELSE IF Le(Real(60), rsi) /\ Le(rsi, Real(70)) THEN 8
    ELSE IF Le(Real(55), rsi) /\ Le(rsi, Real(65)) THEN 6
    ELSE IF Le(Real(50), rsi) /\ Le(rsi, Real(60)) THEN 4
    ELSE IF Le(Real(45), rsi) /\ Le(rsi, Real(55)) THEN 2
    ELSE 0

\* ROC (4 points)
MomentumROC(roc) ==
    IF ~notna(roc) THEN 0
    ELSE IF Gt(roc, Real(8)) THEN 4
    ELSE IF Gt(roc, Real(4)) THEN 3
    ELSE IF Gt(roc, Real(2)) THEN 2
    ELSE IF Gt(roc, Real(0)) THEN 1
    ELSE 0

\* MACD (8 points)
MomentumMACD(macd, signal, hist, hist_mom) ==
    IF notna(macd) /\ notna(signal)
    THEN IF Gt(macd, signal) /\ Gt(hist, Real(0)) /\ Gt(hist_mom, Real(0)) THEN 8
         ELSE IF Gt(macd, signal) /\ Gt(hist, Real(0)) THEN 6
         ELSE IF Gt(macd, signal) THEN 4
         ELSE 0
    ELSE 0

\* the try block of score_momentum_strength
MomentumTry(df, b, n) ==
    Stage(CanRead(df, {"ADX"}, 1), MomentumADX(ADX(b, n)),
    Stage(CanRead(df, {"DI_Spread", "ADX_Rising"}, 1),
          MomentumDI(DI_Spread(b, n), ADX_Rising(b, n)),
    Stage(CanRead(df, {"RSI"}, 1), MomentumRSI(RSI(b, n)),
    Stage(CanRead(df, {"ROC"}, 1), MomentumROC(ROC(b, n)),
    Stage(CanRead(df, {"MACD", "MACD_Signal", "MACD_Hist", "Hist_Momentum"}, 1),
          MomentumMACD(MACD(b, n), MACD_Signal(b, n), MACD_Hist(b, n),
                       Hist_Momentum(b, n)),
    Return(0))))))

MomentumBody(df) == MomentumTry(df, df.bars, Len(df.bars))

\* the first row of the slice iloc[-k:] of n rows
SliceStart(n, k) == IF n - k + 1 < 1 THEN 1 ELSE n - k + 1

\* Series.iloc[a-1:b].mean() of a raw column given by its integers: NaN when
\* the slice is empty
MeanOver(F(_), a, b) ==
    IF a > b THEN NaN
    ELSE LET V(j) == F(j) * Scale IN Num(SumOver(V, a, b) \div (b - a + 1))

\* volume-ratio tiers whose lowest bound is inclusive
VolumeSurgeFrom100(vol_ratio) ==
    IF ~notna(vol_ratio) THEN 0
    ELSE IF Gt(vol_ratio, Real(200)) THEN 8
    ELSE IF Gt(vol_ratio, Real(150)) THEN 6
    ELSE IF Gt(vol_ratio, Real(120)) THEN 4
    ELSE IF Ge(vol_ratio, Real(100)) THEN 2
    ELSE 0

\* Volume Surge (8 points)
VolumeSurge(vol_ratio) ==
    IF ~notna(vol_ratio) THEN 0
    ELSE IF Gt(vol_ratio, Real(200)) THEN 8
    ELSE IF Gt(vol_ratio, Real(150)) THEN 6
    ELSE IF Gt(vol_ratio, Real(120)) THEN 4
    ELSE IF Gt(vol_ratio, Real(100)) THEN 2
    ELSE 0

\* from the obv of row j and the highest obv of the rows before it that lie
\* in the slice starting at row a: <<obv, highest>>
ObvHighNext(obv, high, j, a) == <<obv, IF j <= a \/ obv > high THEN obv ELSE high>>

\* df['OBV'].iloc[-50:].max() of n >= 1 rows
ObvHigh(bars, n) ==
    LET Step(p, j) ==
            ObvHighNext(IF j = 1 THEN 0 ELSE p[1] + SignedVolume(bars, j), p[2],
                        j, SliceStart(n, 50))
    IN  Num(FoldRows(Step, <<0, 0>>, 1, n)[2])

\* an OBV rule that gives nothing to an OBV at or below its EMA
VolumeOBVAboveEma(obv, obv_ema, obv_high) ==
    IF notna(obv) /\ notna(obv_ema)
    THEN IF Ge(obv, obv_high) THEN 6
         ELSE IF Gt(obv, obv_ema) THEN 4
         ELSE 0
    ELSE 0

\* OBV (6 points)
VolumeOBV(obv, obv_ema, obv_high) ==
    IF notna(obv) /\ notna(obv_ema)
    THEN IF Ge(obv, obv_high) THEN 6
         ELSE IF Gt(obv, obv_ema) THEN 4
         ELSE 2
    ELSE 0

\* Volume-Price Confirmation (6 points)
VolumePriceConfirmation(vol_trend, price_trend) ==
    IF Gt(vol_trend, Real(1)) /\ Gt(price_trend, Real(1)) THEN 6
    ELSE IF Gt(vol_trend, Real(1)) \/ Gt(price_trend, Real(1)) THEN 3
    ELSE 0

\* col.iloc[-10:].mean() / col.iloc[-20:-10].mean() of a raw column
TrendOf(F(_), n) ==
    FDiv(MeanOver(F, SliceStart(n, 10), n), MeanOver(F, SliceStart(n, 20), n - 10))

\* the try block of score_volume_liquidity
VolumeTry(df, b, n) ==
    LET Vol(j) == b[j].Volume
        Cls(j) == b[j].Close
    IN  Stage(CanRead(df, {"Vol_Ratio"}, 1), VolumeSurge(Vol_Ratio(b, n)),
        Stage(CanRead(df, {"OBV", "OBV_EMA"}, 1),
              VolumeOBV(OBV(b, n), OBV_EMA(b, n), ObvHigh(b, n)),
        Stage(CanRead(df, {"Volume", "Close"}, 0),
              VolumePriceConfirmation(TrendOf(Vol, n), TrendOf(Cls, n)),
        Return(0))))

VolumeBody(df) == VolumeTry(df, df.bars, Len(df.bars))

\* samples every 5 bars that end at the latest bar
WeeklyRowToLatest(n, k) == (IF n > 35 THEN n - 31 ELSE 0) + 5 * k + 1

\* the rows of df['Close'].iloc[-35::5]: every fifth row from the 35th from
\* the end (from the first when there are fewer), numbered from 0
WeeklyCount(n) == IF n = 0 THEN 0 ELSE (n - (IF n > 35 THEN n - 35 ELSE 0) + 4) \div 5
WeeklyRow(n, k) == (IF n > 35 THEN n - 35 ELSE 0) + 5 * k + 1

RECURSIVE RisesCounted(_, _)
\* the samples from index i down that lie above the sample before them, a
\* sample that does not rise being passed over
RisesCounted(b, i) ==
    IF i < 1 THEN 0
    ELSE (IF b[WeeklyRow(Len(b), i)].Close > b[WeeklyRow(Len(b), i - 1)].Close
          THEN 1 ELSE 0) + RisesCounted(b, i - 1)

RECURSIVE Consecutive(_, _)
\* the loop "for i in range(len(weekly_closes)-1, 0, -1)" from index i on:
\* the number of samples in a row that lie above the sample before
Consecutive(b, i) ==
    IF i < 1 THEN 0
    ELSE IF b[WeeklyRow(Len(b), i)].Close > b[WeeklyRow(Len(b), i - 1)].Close
         THEN 1 + Consecutive(b, i - 1)
         ELSE 0

\* Weekly Momentum (10 points)
WeeklyMomentum(consecutive) ==
    IF consecutive >= 5 THEN 10
    ELSE IF consecutive >= 3 THEN 7
    ELSE IF consecutive >= 2 THEN 4
    ELSE IF consecutive >= 1 THEN 2
    ELSE 0

\* a breakout rule whose top tier asks for no volume surge
BreakoutWithoutSurge(current, high_52w, high_4w, high_2w, vol_ratio) ==
    IF notna(high_52w) /\ Ge(current, FTimes(high_52w, 995, 1000)) THEN 8
    ELSE IF notna(high_4w) /\ Ge(current, FTimes(high_4w, 995, 1000)) THEN 7
    ELSE IF notna(high_2w) /\ Ge(current, FTimes(high_2w, 995, 1000)) THEN 5
    ELSE 0

\* Breakout Quality (8 points)
BreakoutQuality(current, high_52w, high_4w, high_2w, vol_ratio) ==
    IF notna(high_52w) /\ Ge(current, FTimes(high_52w, 995, 1000))
       /\ Gt(vol_ratio, Real(150)) THEN 8
    ELSE IF notna(high_4w) /\ Ge(current, FTimes(high_4w, 995, 1000)) THEN 7
    ELSE IF notna(high_2w) /\ Ge(current, FTimes(high_2w, 995, 1000)) THEN 5
    ELSE 0

\* np.polyfit(range(len(lows)), lows, 1)[0] > 0 for the lows of rows lo..hi:
\* the least-squares slope is (m Sxy - Sx Sy) / (m Sxx - Sx Sx), over a
\* positive denominator
LowTrendAscending(b, lo, hi) ==
    LET X(j) == j - lo
        Y(j) == b[j].Low
        XY(j) == (j - lo) * b[j].Low
    IN  (hi - lo + 1) * SumOver(XY, lo, hi) - SumOver(X, lo, hi) * SumOver(Y, lo, hi) > 0

\* Support/Resistance (7 points) of n >= 1 rows
SupportResistance(b, n) == IF LowTrendAscending(b, SliceStart(n, 20), n) THEN 7 ELSE 3

\* the try block of score_price_action_breakouts
PriceActionTry(df, b, n) ==
    Stage(CanRead(df, {"Close"}, 1), WeeklyMomentum(Consecutive(b, WeeklyCount(n) - 1)),
    Stage(CanRead(df, {"High_52W", "High_4W", "High_2W"}, 2)
              /\ CanRead(df, {"Vol_Ratio"}, 1),
          BreakoutQuality(Close(b, n), High_52W(b, n - 1), High_4W(b, n - 1),
                          High_2W(b, n - 1), Vol_Ratio(b, n)),
    Stage(CanRead(df, {"Low", "High"}, 0), SupportResistance(b, n),
    Return(0))))

PriceActionBody(df) == PriceActionTry(df, df.bars, Len(df.bars))

\* Bollinger Position (6 points)
BollingerPosition(bb_position) ==
    IF ~notna(bb_position) THEN 0
    ELSE IF Gt(bb_position, Real(80)) THEN 6
    ELSE IF Gt(bb_position, Real(60)) THEN 4
    ELSE IF Gt(bb_position, Real(50)) THEN 2
    ELSE 0

\* the points of atr_change = ((atr_current - atr_past) / atr_past) * 100
ATRChangePoints(atr_change) ==
    IF Le(Real(10), atr_change) /\ Le(atr_change, Real(20)) THEN 4
    ELSE IF Le(Real(-5), atr_change) /\ Le(atr_change, Real(10)) THEN 3
    ELSE IF Le(Real(-10), atr_change) /\ Lt(atr_change, Real(-5)) THEN 2
    ELSE 0

\* ATR (4 points)
ATRChange(atr_current, atr_past) ==
    IF notna(atr_current) /\ notna(atr_past)
    THEN ATRChangePoints(FPercent(FSub(atr_current, atr_past), atr_past))
    ELSE 0

\* the try block of score_volatility_risk
VolatilityTry(df, b, n) ==
    Stage(CanRead(df, {"BB_Position"}, 1), BollingerPosition(BB_Position(b, n)),
    Stage(CanRead(df, {"ATR_Percent"}, 10),
          ATRChange(ATR_Percent(b, n), ATR_Percent(b, n - 9)),
    Return(0)))

VolatilityBody(df) == VolatilityTry(df, df.bars, Len(df.bars))

\* the points of distance = ((current - kijun) / kijun) * 100
DistancePoints(distance) ==
    IF Gt(distance, Real(10)) THEN 5 ELSE IF Gt(distance, Real(5)) THEN 4 ELSE 2

\* the cloud rule (5 points), with 9 and 26 day means as tenkan and kijun
IchimokuCloud(current, tenkan, kijun) ==
    IF notna(tenkan) /\ notna(kijun) /\ Gt(current, kijun) /\ Gt(tenkan, kijun)
    THEN DistancePoints(FPercent(FSub(current, kijun), kijun))
    ELSE 0

\* the try block of score_ichimoku: the rolling means are taken of the Close
\* column, and .iloc[-1] raises on an empty one
IchimokuTry(df, b, n) ==
    Stage(CanRead(df, {"Close"}, 1),
          IchimokuCloud(Close(b, n), calculate_sma(b, 9, n), calculate_sma(b, 26, n)),
    Return(0))

IchimokuBody(df) == IchimokuTry(df, df.bars, Len(df.bars))

\* the keys of self.scores, in the order calculate_total_score fills them
Categories ==
    <<"Trend Alignment", "Momentum & Strength", "Volume & Liquidity",
      "Price Action & Breakouts", "Volatility & Risk", "Ichimoku Cloud">>

\* the points a category can give at most, as the docstring of its method
\* states them
Cap(c) ==
    CASE c = "Trend Alignment" -> 25
      [] c = "Momentum & Strength" -> 35
      [] c = "Volume & Liquidity" -> 20
      [] c = "Price Action & Breakouts" -> 25
      [] c = "Volatility & Risk" -> 10
      [] c = "Ichimoku Cloud" -> 5

\* the points of the "120-point scoring system"
MaxTotal == 120

\* the labels calculate_total_score gives
Labels == {"Exceptional", "Very High", "High", "Medium", "Low", "Weak"}

\* the tiers with their lower bounds excluded
ClassificationExclusive(total) ==
    IF total > 100 THEN "Exceptional"
    ELSE IF total > 85 THEN "Very High"
    ELSE IF total > 70 THEN "High"
    ELSE IF total > 55 THEN "Medium"
    ELSE IF total > 40 THEN "Low"
    ELSE "Weak"

\* the tiers with the labels of two neighbours exchanged
ClassificationExchanged(total) ==
    IF total >= 100 THEN "Exceptional"
    ELSE IF total >= 85 THEN "Very High"
    ELSE IF total >= 70 THEN "Medium"
    ELSE IF total >= 55 THEN "High"
    ELSE IF total >= 40 THEN "Low"
    ELSE "Weak"

\* the classification of a total, and its colour
Classification(total) ==
    IF total >= 100 THEN "Exceptional"
    ELSE IF total >= 85 THEN "Very High"
    ELSE IF total >= 70 THEN "High"
    ELSE IF total >= 55 THEN "Medium"
    ELSE IF total >= 40 THEN "Low"
    ELSE "Weak"

Color(total) ==
    IF total >= 100 THEN "#047857"
    ELSE IF total >= 85 THEN "#065f46"
    ELSE IF total >= 70 THEN "#059669"
    ELSE IF total >= 55 THEN "#d97706"
    ELSE IF total >= 40 THEN "#dc2626"
    ELSE "#991b1b"

(* ------------------------------------------------------------------ *)
(* the engines at work: one pipeline per symbol, run side by side      *)
(* ------------------------------------------------------------------ *)

\* the symbols whose pipelines run side by side
Symbols == {"RELIANCE", "TCS"}

\* the number of times a caller calls calculate_total_score on one engine
MaxCalls == 2

\* the series a caller hands to the engines, as <<shape, volumes, bars, defect>>:
\* empty, a single bar, fewer bars than any window, a few months, more than a
\* year, and series that break an invariant of a price series in the last bar
SeriesOf(p) ==
    IF p = "RELIANCE"
    THEN {<<"flat", "const", 0, "none">>, <<"rise", "const", 1, "none">>,
          <<"rise", "surge", 5, "none">>, <<"swing", "rising", 40, "none">>,
          <<"rise", "const", 60, "none">>, <<"rise", "surge", 260, "none">>,
          <<"fall", "const", 12, "volume">>, <<"rise", "const", 12, "ohlc">>,
          <<"swing", "const", 12, "dates">>}
    ELSE {<<"rise", "const", 1, "none">>, <<"swing", "rising", 24, "none">>}

\* the frame a caller holds: the raw columns only
RawFrame(s) == [bars |-> PriceSeries(s[1], s[2], s[3], s[4]), cols |-> RawColumns]

VARIABLES
    frames,     \* the DataFrame objects, by location
    dicts,      \* the dict objects, by location
    tech,       \* tech[p]: the TechnicalEngine of p's pipeline (self.df)
    scoring,    \* scoring[p]: the ScoringEngine (self.df, self.scores, self.total)
    pc,         \* pc[p]: where p's pipeline stands
    step,       \* step[p]: the score_* calls made by the running calculate_total_score
    acc,        \* acc[p]: the sum of the values they returned
    results,    \* results[p]: the dicts calculate_total_score returned, in order
    observed,   \* observed[p]: each of them as its caller read it on return
    last,       \* last[p]: the latest score_* call and the value it returned
    given,      \* given[p]: the frame as the caller handed it over
    alone,      \* alone[p]: the result of p's pipeline run with nothing beside it
    reading,    \* the values a score_* method has read from the last row
    awarded,    \* the points its sub-rules have added, by sub-rule
    cache,      \* _cache: the result stored for a symbol
    screen,     \* the latest call of screen_stocks: its filters, lists and response
    market,     \* market[symbol]: the result dict made of the bars a fetch returns
    portfolio,  \* the Portfolio row of the paper-trading account
    positions,  \* positions[symbol]: the Position row of the portfolio, if any
    trades,     \* the Trade rows, in the order they were added
    reply       \* what execute_buy_order or execute_sell_order returned last

vars == <<frames, dicts, tech, scoring, pc, step, acc, results, observed, last,
          given, alone, reading, awarded, cache, screen, market,
                   portfolio, positions, trades, reply>>

\* no score_* method is run on read values
NoRules == reading = <<>> /\ awarded = <<>>

\* no call of screen_stocks is running
NoScreen == cache = <<>> /\ screen = <<>> /\ market = <<>>

\* no order is placed
NoTrading == portfolio = <<>> /\ positions = <<>> /\ trades = <<>> /\ reply = <<>>

\* self.df = df: the caller's frame itself
SameFrame(p) == <<p, "df">>

\* a dict that belongs to the class ScoringEngine, one for all its instances
ClassScores(p) == <<"ScoringEngine", "{}">>

\* the caller's frame, the frame df.copy() makes, and the dict "{}" makes
InputLoc(p) == <<p, "df">>
DfCopy(p) == <<p, "df.copy()">>
NewScores(p) == <<p, "{}">>

NoEngine == [df |-> <<>>]
EmptyDict == <<>>

\* d = {c: v}: a new dict with the one entry
PutOnly(d, c, v) == [k \in {c} |-> v]

\* d[c] = v
Put(d, c, v) == [k \in DOMAIN d \cup {c} |-> IF k = c THEN v ELSE d[k]]

\* heap[loc] = obj, for a new or a known location
Store(heap, loc, obj) == [l \in DOMAIN heap \cup {loc} |-> IF l = loc THEN obj ELSE heap[l]]

\* self.df[name] = column, for every indicator column
Augmented(df) == [df EXCEPT !.cols = @ \cup IndicatorColumns]

\* the dict returned for a total and the object that holds the category scores
Result(total, scores) ==
    [total_score |-> total, classification |-> Classification(total),
     color |-> Color(total), category_scores |-> scores]

RECURSIVE SumTo(_, _)
\* d[Categories[1]] + ... + d[Categories[i]]
SumTo(d, i) == IF i = 0 THEN 0 ELSE d[Categories[i]] + SumTo(d, i - 1)

\* what the six score_* methods store for an augmented frame: self.scores
\* after all of them
ScoresOf(df) ==
    (Categories[1] :> ExceptException(TrendBody(df)).score)
    @@ (Categories[2] :> ExceptException(MomentumBody(df)).score)
    @@ (Categories[3] :> ExceptException(VolumeBody(df)).score)
    @@ (Categories[4] :> ExceptException(PriceActionBody(df)).score)
    @@ (Categories[5] :> ExceptException(VolatilityBody(df)).score)
    @@ (Categories[6] :> ExceptException(IchimokuBody(df)).score)

\* the result they make
ResultOf(scores) == Result(SumTo(scores, 6), scores)

\* TechnicalEngine(df).calculate_all_indicators() then
\* ScoringEngine(df_with_indicators).calculate_total_score(), in one go
RunAlone(df) == ResultOf(ScoresOf(Augmented(df)))

\* the pipelines before their engines are made, for the series f[p] of each p
Fetched(f) ==
    /\ frames = [l \in {InputLoc(p) : p \in Symbols} |-> RawFrame(f[l[1]])]
    /\ given = [p \in Symbols |-> RawFrame(f[p])]
    /\ alone = [p \in Symbols |-> RunAlone(given[p])]
    /\ dicts = <<>>
    /\ tech = [p \in Symbols |-> NoEngine]
    /\ scoring = [p \in Symbols |-> NoEngine]
    /\ pc = [p \in Symbols |-> "fetched"]
    /\ step = [p \in Symbols |-> 0]
    /\ acc = [p \in Symbols |-> 0]
    /\ results = [p \in Symbols |-> <<>>]
    /\ observed = [p \in Symbols |-> <<>>]
    /\ last = [p \in Symbols |-> <<>>]

Init ==
    \E f \in [Symbols -> UNION {SeriesOf(p) : p \in Symbols}] :
        (\A p \in Symbols : f[p] \in SeriesOf(p)) /\ Fetched(f) /\ NoRules /\ NoScreen /\ NoTrading

\* TechnicalEngine.__init__: self.df = df.copy()
TechnicalEngineInit(p) ==
    /\ pc[p] = "fetched"
    /\ frames' = Store(frames, DfCopy(p), frames[InputLoc(p)])
    /\ tech' = [tech EXCEPT ![p] = [df |-> DfCopy(p)]]
    /\ pc' = [pc EXCEPT ![p] = "tech"]
    /\ UNCHANGED <<dicts, scoring, step, acc, results, observed, last, given, alone, reading, awarded, cache, screen, market,
                   portfolio, positions, trades, reply>>

\* TechnicalEngine.calculate_all_indicators: every indicator column is
\* assigned to self.df, which is returned
calculate_all_indicators(p) ==
    /\ pc[p] = "tech"
    /\ frames' = [frames EXCEPT ![tech[p].df] = Augmented(@)]
    /\ pc' = [pc EXCEPT ![p] = "augmented"]
    /\ UNCHANGED <<dicts, tech, scoring, step, acc, results, observed, last, given, alone, reading, awarded, cache, screen, market,
                   portfolio, positions, trades, reply>>

\* ScoringEngine.__init__ on the frame calculate_all_indicators returned
ScoringEngineInit(p) ==
    /\ pc[p] = "augmented"
    /\ dicts' = Store(dicts, NewScores(p), EmptyDict)
    /\ scoring' = [scoring EXCEPT ![p] =
                      [df |-> tech[p].df, scores |-> NewScores(p), total |-> 0]]
    /\ pc' = [pc EXCEPT ![p] = "constructed"]
    /\ UNCHANGED <<frames, tech, step, acc, results, observed, last, given, alone, reading, awarded, cache, screen, market,
                   portfolio, positions, trades, reply>>

\* the end of a score_* method of p's engine that computed score for its
\* category c: self.scores[c] = score; return score
ScoreMethod(p, c, score) ==
    /\ dicts' = [dicts EXCEPT ![scoring[p].scores] = Put(@, c, score)]
    /\ last' = [last EXCEPT ![p] = <<c, score>>]

\* an exception that leaves a score_* method leaves its caller and the pipeline
Propagates(p) ==
    /\ pc' = [pc EXCEPT ![p] = "raised"]
    /\ UNCHANGED <<dicts, last, step, acc>>

\* the i-th term of the sum in calculate_total_score, for a score_* method
\* whose try block, with its handler, ended as r: the first term starts a
\* call of calculate_total_score
Term(p, i, r) ==
    /\ IF i = 1 THEN \/ pc[p] = "constructed"
                     \/ pc[p] = "returned" /\ Len(results[p]) < MaxCalls
       ELSE pc[p] = "scoring" /\ step[p] = i - 1
    /\ IF r.raised THEN Propagates(p)
       ELSE /\ ScoreMethod(p, Categories[i], r.score)
            /\ step' = [step EXCEPT ![p] = i]
            /\ acc' = [acc EXCEPT ![p] = IF i = 1 THEN r.score ELSE @ + r.score]
            /\ pc' = [pc EXCEPT ![p] = "scoring"]
    /\ UNCHANGED <<frames, tech, scoring, results, observed, given, alone, reading, awarded, cache, screen, market,
                   portfolio, positions, trades, reply>>

score_trend_alignment(p) ==
    Term(p, 1, ExceptException(TrendBody(frames[scoring[p].df])))
score_momentum_strength(p) ==
    Term(p, 2, ExceptException(MomentumBody(frames[scoring[p].df])))
score_volume_liquidity(p) ==
    Term(p, 3, ExceptException(VolumeBody(frames[scoring[p].df])))
score_price_action_breakouts(p) ==
    Term(p, 4, ExceptException(PriceActionBody(frames[scoring[p].df])))
score_volatility_risk(p) ==
    Term(p, 5, ExceptException(VolatilityBody(frames[scoring[p].df])))
score_ichimoku(p) ==
    Term(p, 6, ExceptException(IchimokuBody(frames[scoring[p].df])))

\* self.total += (the sum)
AddToTotal(self, sum) == self.total + sum

\* self.total = (the sum)
AssignTotal(self, sum) == sum

\* the end of calculate_total_score, once the six methods have returned: the
\* total, its classification and the dict that is returned, which holds
\* self.scores itself
Returns(p, total) ==
    /\ scoring' = [scoring EXCEPT ![p].total = total]
    /\ results' = [results EXCEPT ![p] = Append(@, Result(total, scoring[p].scores))]
    /\ observed' = [observed EXCEPT ![p] =
                       Append(@, Result(total, dicts[scoring[p].scores]))]

calculate_total_score(p) ==
    /\ pc[p] = "scoring" /\ step[p] = 6
    /\ Returns(p, AssignTotal(scoring[p], acc[p]))
    /\ pc' = [pc EXCEPT ![p] = "returned"]
    /\ UNCHANGED <<frames, dicts, tech, step, acc, last, given, alone, reading, awarded, cache, screen, market,
                   portfolio, positions, trades, reply>>

Next ==
    \E p \in Symbols :
        \/ TechnicalEngineInit(p)
        \/ calculate_all_indicators(p)
        \/ ScoringEngineInit(p)
        \/ score_trend_alignment(p)
        \/ score_momentum_strength(p)
        \/ score_volume_liquidity(p)
        \/ score_price_action_breakouts(p)
        \/ score_volatility_risk(p)
        \/ score_ichimoku(p)
        \/ calculate_total_score(p)

Spec == Init /\ [][Next]_vars

(* ------------------------------------------------------------------ *)
(* calculate_total_score on every total the six categories can make   *)
(* ------------------------------------------------------------------ *)

RECURSIVE CapsUpTo(_)
\* the caps of the first i categories together
CapsUpTo(i) == IF i = 0 THEN 0 ELSE Cap(Categories[i]) + CapsUpTo(i - 1)

\* six category scores within their caps whose sum is t: the categories are
\* filled in their order
ScoresWithSum(t) ==
    [c \in {Categories[i] : i \in 1..6} |->
        LET i == CHOOSE j \in 1..6 : Categories[j] = c
        IN  Min2(Cap(c), Max2(0, t - CapsUpTo(i - 1)))]

\* the series of the engines in this part
SeriesScored == <<"rise", "const", 1, "none">>

\* both engines in calculate_total_score after the sixth score_* method has
\* returned, the sum of the returned values being t[p]
AllScored(t) ==
    /\ frames = [l \in {InputLoc(p) : p \in Symbols} \cup {DfCopy(p) : p \in Symbols} |->
                    IF l[2] = "df" THEN RawFrame(SeriesScored)
                    ELSE Augmented(RawFrame(SeriesScored))]
    /\ given = [p \in Symbols |-> RawFrame(SeriesScored)]
    /\ alone = [p \in Symbols |-> RunAlone(given[p])]
    /\ dicts = [l \in {NewScores(p) : p \in Symbols} |-> ScoresWithSum(t[l[1]])]
    /\ tech = [p \in Symbols |-> [df |-> DfCopy(p)]]
    /\ scoring = [p \in Symbols |->
                     [df |-> DfCopy(p), scores |-> NewScores(p), total |-> 0]]
    /\ pc = [p \in Symbols |-> "scoring"]
    /\ step = [p \in Symbols |-> 6]
    /\ acc = t
    /\ results = [p \in Symbols |-> <<>>]
    /\ observed = [p \in Symbols |-> <<>>]
    /\ last = [p \in Symbols |-> <<Categories[6], ScoresWithSum(t[p])[Categories[6]]>>]

InitClassify ==
    \E t \in [Symbols -> 0..MaxTotal] : AllScored(t) /\ NoRules /\ NoScreen /\ NoTrading

NextClassify == \E p \in Symbols : calculate_total_score(p)

SpecClassify == InitClassify /\ [][NextClassify]_vars

(* ------------------------------------------------------------------ *)
(* the score_* methods called one by one                               *)
(* ------------------------------------------------------------------ *)

\* the engine whose methods a caller calls itself, and the series it may hold
Engine == "RELIANCE"
SeriesDirect ==
    {<<"flat", "const", 0, "none">>, <<"rise", "const", 1, "none">>,
     <<"rise", "surge", 5, "none">>, <<"swing", "rising", 24, "none">>,
     <<"rise", "const", 60, "none">>}

\* a call of the i-th score_* method of p's engine from outside
\* calculate_total_score, its try block, with its handler, ending as r
Direct(p, i, r) ==
    /\ pc[p] = "constructed"
    /\ IF r.raised THEN Propagates(p)
       ELSE ScoreMethod(p, Categories[i], r.score) /\ UNCHANGED <<pc, step, acc>>
    /\ UNCHANGED <<frames, tech, scoring, results, observed, given, alone, reading, awarded, cache, screen, market,
                   portfolio, positions, trades, reply>>

InitDirect ==
    \E s \in SeriesDirect :
        /\ Fetched([p \in Symbols |-> IF p = Engine THEN s ELSE <<"rise", "const", 1, "none">>])
        /\ NoRules /\ NoScreen /\ NoTrading

\* the engines are made, then the methods are called in any order, any
\* number of times
NextDirect ==
    \/ TechnicalEngineInit(Engine)
    \/ calculate_all_indicators(Engine)
    \/ ScoringEngineInit(Engine)
    \/ Direct(Engine, 1, ExceptException(TrendBody(frames[scoring[Engine].df])))
    \/ Direct(Engine, 2, ExceptException(MomentumBody(frames[scoring[Engine].df])))
    \/ Direct(Engine, 3, ExceptException(VolumeBody(frames[scoring[Engine].df])))
    \/ Direct(Engine, 4, ExceptException(PriceActionBody(frames[scoring[Engine].df])))
    \/ Direct(Engine, 5, ExceptException(VolatilityBody(frames[scoring[Engine].df])))
    \/ Direct(Engine, 6, ExceptException(IchimokuBody(frames[scoring[Engine].df])))

SpecDirect == InitDirect /\ [][NextDirect]_vars

\* One pipeline on a series of any length up to more than a year: the engine
\* of one symbol runs from the fetched frame to the results, the other symbol
\* stands still.
SeriesSingle ==
    {<<"flat", "const", 260, "none">>, <<"flat", "halt", 252, "none">>,
     <<"rise", "const", 260, "none">>, <<"rise", "surge", 260, "none">>,
     <<"fall", "const", 260, "none">>, <<"swing", "const", 260, "none">>,
     <<"swing", "rising", 258, "none">>, <<"swing", "const", 259, "none">>,
     <<"rise", "const", 60, "none">>,
     <<"rise", "surge", 30, "none">>, <<"fall", "const", 40, "none">>,
     <<"rise", "const", 12, "none">>, <<"swing", "const", 11, "none">>,
     <<"swing", "const", 3, "none">>, <<"fall", "const", 2, "none">>,
     <<"rise", "const", 1, "none">>, <<"flat", "const", 0, "none">>}

InitSingle ==
    \E s \in SeriesSingle :
        /\ Fetched([p \in Symbols |-> IF p = Engine THEN s ELSE <<"rise", "const", 1, "none">>])
        /\ NoRules /\ NoScreen /\ NoTrading

NextSingle ==
    \/ TechnicalEngineInit(Engine)
    \/ calculate_all_indicators(Engine)
    \/ ScoringEngineInit(Engine)
    \/ score_trend_alignment(Engine)
    \/ score_momentum_strength(Engine)
    \/ score_volume_liquidity(Engine)
    \/ score_price_action_breakouts(Engine)
    \/ score_volatility_risk(Engine)
    \/ score_ichimoku(Engine)
    \/ calculate_total_score(Engine)

SpecSingle == InitSingle /\ [][NextSingle]_vars

\* The sub-rules of the score_* methods on the values they read: a method has
\* read the last row, each sub-rule then adds its points once.
PriceLevels == {NaN, Real(80), Real(90), Real(96), Real(100), Real(110)}
RsiLevels ==
    {NaN, Real(0), Num(449900), Real(45), Num(499900), Real(50), Num(549900),
     Real(55), Num(599900), Real(60), Real(65), Real(70), Num(700100), Real(100)}

\* the sub-rules run here
SubRules == {"Price Position", "RSI"}

InitRules ==
    /\ Fetched([p \in Symbols |-> <<"rise", "const", 1, "none">>])
    /\ NoScreen /\ NoTrading
    /\ \E ema20 \in PriceLevels, sma50 \in PriceLevels, sma200 \in PriceLevels,
          rsi \in RsiLevels :
           reading = [current |-> Real(100), ema20 |-> ema20, sma50 |-> sma50,
                      sma200 |-> sma200, rsi |-> rsi]
    /\ awarded = [r \in SubRules |-> <<>>]

\* a sub-rule adds its points
Award(rule, points) ==
    /\ awarded[rule] = <<>>
    /\ awarded' = [awarded EXCEPT ![rule] = <<points>>]
    /\ UNCHANGED <<frames, dicts, tech, scoring, pc, step, acc, results, observed,
                   last, given, alone, reading, cache, screen, market,
                   portfolio, positions, trades, reply>>

NextRules ==
    \/ Award("Price Position",
             TrendPricePosition(reading.current, reading.ema20, reading.sma50,
                                reading.sma200))
    \/ Award("RSI", MomentumRSI(reading.rsi))

SpecRules == InitRules /\ [][NextRules]_vars

\* Screening: screen_stocks over the stock universe, with the result cache.

\* NIFTY_500_STOCKS[:num_stocks], cut to three symbols
Universe == {"RELIANCE", "TCS", "INFY"}

SECTOR_MAPPING == [RELIANCE |-> "Oil & Gas", TCS |-> "IT", INFY |-> "IT"]

\* the daily bars the market returns for a symbol: more than 50 of them
QuoteOf(symbol) ==
    IF symbol = "RELIANCE" THEN <<"rise", "surge", 60, "none">>
    ELSE <<"swing", "const", 60, "none">>

\* Python's None and a value that is not None
None == <<>>
Some(x) == <<x>>

\* round(x, 2): to the nearest hundredth, a tie to the even one
Round2(a) ==
    IF ~IsNum(a) THEN a
    ELSE LET q == a.v \div (Scale \div 100)
             r == a.v % (Scale \div 100)
             half == Scale \div 200
         IN  Num((Scale \div 100)
                 * (IF r > half \/ (r = half /\ q % 2 = 1) THEN q + 1 ELSE q))

\* round(float(latest[col]), 2) if pd.notna(latest[col]) else None
RoundedOrNone(a) == IF notna(a) THEN Some(Round2(a)) ELSE None

\* a list of the one text, or the empty list
Said(cond, text) == IF cond THEN <<text>> ELSE <<>>

\* signals if signals else [...]
OrElse(list, text) == IF list # <<>> THEN list ELSE <<text>>

generate_trading_signals(bars) ==
    LET n == Len(bars)
    IN  OrElse(
            Said(notna(MACD(bars, n)) /\ notna(MACD_Signal(bars, n))
                     /\ Gt(MACD(bars, n), MACD_Signal(bars, n))
                     /\ Gt(MACD_Hist(bars, n), Real(0)),
                 "Bullish MACD crossover")
         \o Said(Ge(RSI(bars, n), Real(60)) /\ Le(RSI(bars, n), Real(70)),
                 "RSI in strong momentum zone")
         \o Said(~(Ge(RSI(bars, n), Real(60)) /\ Le(RSI(bars, n), Real(70)))
                     /\ Gt(RSI(bars, n), Real(80)),
                 "RSI overbought - potential pullback")
         \o Said(Gt(Close(bars, n), SMA_50(bars, n))
                     /\ Gt(SMA_50(bars, n), SMA_200(bars, n)),
                 "Strong uptrend - all MAs aligned")
         \o Said(Gt(Vol_Ratio(bars, n), Real(150)), "High volume surge detected")
         \o Said(Ge(Close(bars, n), FTimes(High_52W(bars, n), 995, 1000)),
                 "Near 52-week high breakout"),
            "No strong signals detected")

\* each insight without the symbol and the number its text formats
generate_stock_insights(bars, score_result, symbol) ==
    LET n == Len(bars)
        trend == score_result.category_scores["Trend Alignment"]
    IN  OrElse(
            Said(trend >= 20, "is in a strong uptrend with well-aligned moving averages")
         \o Said(trend < 20 /\ trend >= 15, "shows positive trend alignment")
         \o Said(Gt(ADX(bars, n), Real(30)), "Strong trend strength with ADX")
         \o Said(Gt(Vol_Ratio(bars, n), Real(150)), "Exceptional volume activity")
         \o Said(score_result.total_score >= 85,
                 "This stock demonstrates exceptional technical strength across all metrics")
         \o Said(score_result.total_score < 85 /\ score_result.total_score >= 70,
                 "Strong technical setup with multiple positive indicators"),
            "Limited insights available")

\* factors is counted in halves, so that factors / max_factors >= 0.8 is
\* halves >= 8
calculate_trend_strength(bars) ==
    LET n == Len(bars)
        close == Close(bars, n)
        aligned == IF notna(EMA_20(bars, n)) /\ notna(SMA_50(bars, n))
                          /\ notna(SMA_200(bars, n))
                   THEN IF Gt(close, EMA_20(bars, n))
                               /\ Gt(EMA_20(bars, n), SMA_50(bars, n))
                               /\ Gt(SMA_50(bars, n), SMA_200(bars, n)) THEN 4
                        ELSE IF Gt(close, SMA_50(bars, n))
                               /\ Gt(SMA_50(bars, n), SMA_200(bars, n)) THEN 2
                        ELSE 0
                   ELSE 0
        adx == IF Gt(ADX(bars, n), Real(30)) THEN 2
               ELSE IF Gt(ADX(bars, n), Real(25)) THEN 1 ELSE 0
        rsi == IF Ge(RSI(bars, n), Real(55)) /\ Le(RSI(bars, n), Real(75)) THEN 2 ELSE 0
        vol == IF Gt(Vol_Ratio(bars, n), Real(120)) THEN 1 ELSE 0
        halves == aligned + adx + rsi + vol
    IN  IF halves >= 8 THEN "Very Strong"
        ELSE IF halves >= 6 THEN "Strong"
        ELSE IF halves >= 4 THEN "Moderate"
        ELSE IF halves >= 2 THEN "Weak"
        ELSE "Very Weak"

\* the keys process_stock adds to those of the batch loop of screen_stocks
AnalysisKeys == {"signals", "insights", "trend_strength"}

\* the result dict process_stock makes from the fetched bars of a symbol
\* (of the keys both dicts have, those the filters and the sort read)
StockResult(symbol, df) ==
    [symbol |-> symbol,
     sector |-> SECTOR_MAPPING[symbol],
     price |-> Round2(Close(df.bars, Len(df.bars))),
     total_score |-> RunAlone(df).total_score,
     classification |-> RunAlone(df).classification,
     indicators |-> [rsi |-> RoundedOrNone(RSI(df.bars, Len(df.bars))),
                     adx |-> RoundedOrNone(ADX(df.bars, Len(df.bars)))],
     signals |-> generate_trading_signals(df.bars),
     insights |-> generate_stock_insights(df.bars, RunAlone(df), symbol),
     trend_strength |-> calculate_trend_strength(df.bars)]

\* the result dict the batch loop of screen_stocks makes from the same bars:
\* the same keys but the three of the analysis
BatchResult(r) == [key \in DOMAIN r \ AnalysisKeys |-> r[key]]

\* the result of each symbol of the universe
Listing ==
    [RELIANCE |-> StockResult("RELIANCE", RawFrame(QuoteOf("RELIANCE"))),
     TCS |-> StockResult("TCS", RawFrame(QuoteOf("TCS"))),
     INFY |-> StockResult("INFY", RawFrame(QuoteOf("INFY")))]

\* _cache and _cache_timestamps: for a key the data stored and whether its
\* timestamp is less than CACHE_DURATION old
EmptyCache == [key \in Universe |-> [data |-> None, fresh |-> FALSE]]

get_cached_data(c, key) ==
    IF c[key].data # None /\ c[key].fresh THEN c[key].data ELSE None

set_cached_data(c, key, data) ==
    [c EXCEPT ![key] = [data |-> Some(data), fresh |-> TRUE]]

\* set_cached_data for each symbol of a list, with the result made of it
RECURSIVE CacheResults(_, _, _)
CacheResults(c, symbols, made) ==
    IF symbols = <<>> THEN c
    ELSE CacheResults(set_cached_data(c, Head(symbols), made[Head(symbols)]),
                      Tail(symbols), made)

\* ScreeningFilters with every field None, and with its defaults
NoFilters ==
    [strength_levels |-> None, min_score |-> None, max_score |-> None,
     min_adx |-> None, rsi_min |-> None, rsi_max |-> None, sectors |-> None,
     min_price |-> None, max_price |-> None]

DefaultFilters ==
    [strength_levels |-> None, min_score |-> Some(40), max_score |-> Some(120),
     min_adx |-> Some(20), rsi_min |-> Some(45), rsi_max |-> Some(80),
     sectors |-> None, min_price |-> None, max_price |-> None]

\* the filters a caller posts: none, the defaults, and one bound at a time
FilterChoices ==
    {NoFilters, DefaultFilters}
        \cup {[NoFilters EXCEPT !.min_score = Some(v)] : v \in {0, 60}}
        \cup {[NoFilters EXCEPT !.max_score = Some(v)] : v \in {0, 60}}
        \cup {[NoFilters EXCEPT !.min_adx = Some(v)] : v \in {0, 70}}
        \cup {[NoFilters EXCEPT !.rsi_min = Some(v)] : v \in {0, 70}}
        \cup {[NoFilters EXCEPT !.rsi_max = Some(v)] : v \in {0, 70}}
        \cup {[NoFilters EXCEPT !.sectors = Some(v)] : v \in {{}, {"IT"}}}
        \cup {[NoFilters EXCEPT !.strength_levels = Some(v)] : v \in {{"Medium"}}}
        \cup {[NoFilters EXCEPT !.min_price = Some(v)] : v \in {0, 100}}
        \cup {[NoFilters EXCEPT !.max_price = Some(v)] : v \in {0, 100}}

\* the truth value Python gives an Optional number and an Optional list
Truthy(opt) == opt # None /\ opt[1] # 0
TruthyList(opt) == opt # None /\ opt[1] # {}

\* a rounded indicator that is neither None nor 0.0
TruthyValue(opt) == opt # None /\ opt[1].v # 0

\* the list comprehensions of the filters, each behind its "if filters.x:"
ByMinScore(f, rs) ==
    LET Keep(r) == r.total_score >= f.min_score[1]
    IN  IF Truthy(f.min_score) THEN SelectSeq(rs, Keep) ELSE rs

ByMaxScore(f, rs) ==
    LET Keep(r) == r.total_score <= f.max_score[1]
    IN  IF Truthy(f.max_score) THEN SelectSeq(rs, Keep) ELSE rs

ByStrength(f, rs) ==
    LET Keep(r) == r.classification \in f.strength_levels[1]
    IN  IF TruthyList(f.strength_levels) THEN SelectSeq(rs, Keep) ELSE rs

ByAdx(f, rs) ==
    LET Keep(r) ==
            /\ TruthyValue(r.indicators.adx)
            /\ r.indicators.adx[1].v >= f.min_adx[1] * Scale
    IN  IF Truthy(f.min_adx) THEN SelectSeq(rs, Keep) ELSE rs

ByRsi(f, rs) ==
    LET rsi_min == IF Truthy(f.rsi_min) THEN f.rsi_min[1] ELSE 0
        rsi_max == IF Truthy(f.rsi_max) THEN f.rsi_max[1] ELSE 100
        Keep(r) ==
            /\ TruthyValue(r.indicators.rsi)
            /\ rsi_min * Scale <= r.indicators.rsi[1].v
            /\ r.indicators.rsi[1].v <= rsi_max * Scale
    IN  IF Truthy(f.rsi_min) \/ Truthy(f.rsi_max) THEN SelectSeq(rs, Keep) ELSE rs

BySector(f, rs) ==
    LET Keep(r) == r.sector \in f.sectors[1]
    IN  IF TruthyList(f.sectors) THEN SelectSeq(rs, Keep) ELSE rs

ByMinPrice(f, rs) ==
    LET Keep(r) == r.price.v >= f.min_price[1] * Scale
    IN  IF Truthy(f.min_price) THEN SelectSeq(rs, Keep) ELSE rs

ByMaxPrice(f, rs) ==
    LET Keep(r) == r.price.v <= f.max_price[1] * Scale
    IN  IF Truthy(f.max_price) THEN SelectSeq(rs, Keep) ELSE rs

\* the filters in the order of the handler
ApplyFilters(f, rs) ==
    ByMaxPrice(f, ByMinPrice(f, BySector(f, ByRsi(f, ByAdx(f,
        ByStrength(f, ByMaxScore(f, ByMinScore(f, rs))))))))

\* a sort by total_score that puts the lowest first
RECURSIVE SortAscending(_)
SortAscending(rs) ==
    IF rs = <<>> THEN <<>>
    ELSE LET r == rs[Len(rs)]
             sorted == SortAscending(SubSeq(rs, 1, Len(rs) - 1))
             Before(x) == x.total_score <= r.total_score
             After(x) == x.total_score > r.total_score
         IN  SelectSeq(sorted, Before) \o <<r>> \o SelectSeq(sorted, After)

\* list.sort(key=lambda x: x['total_score'], reverse=True): the highest first,
\* results of one score in the order they had
RECURSIVE SortByScore(_)
SortByScore(rs) ==
    IF rs = <<>> THEN <<>>
    ELSE LET r == rs[Len(rs)]
             sorted == SortByScore(SubSeq(rs, 1, Len(rs) - 1))
             Before(x) == x.total_score >= r.total_score
             After(x) == x.total_score < r.total_score
         IN  SelectSeq(sorted, Before) \o <<r>> \o SelectSeq(sorted, After)

\* the orders in which list(set(...)) hands out the universe
Orders == {<<"RELIANCE", "TCS", "INFY">>, <<"INFY", "TCS", "RELIANCE">>}

\* what the market does for a symbol that is not cached: "batch" when
\* fetch_stocks_batch returns its bars, "single" when only fetch_stock_data
\* does, "none" when both fail
Outcome(reliance, tcs, infy) == [RELIANCE |-> reliance, TCS |-> tcs, INFY |-> infy]

Outcomes ==
    {Outcome("batch", "batch", "batch"),
     Outcome("batch", "single", "none"), Outcome("none", "batch", "single")}

\* no call of screen_stocks has returned
NoCall ==
    [filters |-> NoFilters, cached_symbols |-> <<>>, batch_symbols |-> <<>>,
     failed_symbols |-> <<>>, results |-> <<>>]

InitScreen ==
    /\ Fetched([p \in Symbols |-> <<"rise", "const", 1, "none">>])
    /\ NoRules
    /\ cache = EmptyCache
    /\ screen = NoCall
    /\ market = Listing
    /\ NoTrading

\* the results list before the filters: the cached results, then those made
\* from the batch, then those process_stock made one by one
Gathered(c, cached_symbols, batch_data, single) ==
    [i \in 1..Len(cached_symbols) |-> get_cached_data(c, cached_symbols[i])[1]]
        \o [i \in 1..Len(batch_data) |-> BatchResult(market[batch_data[i]])]
        \o [i \in 1..Len(single) |-> market[single[i]]]

\* POST /api/v2/stocks/screen
screen_stocks(filters, symbols, outcome) ==
    LET IsCached(symbol) == get_cached_data(cache, symbol) # None
        NotCached(symbol) == get_cached_data(cache, symbol) = None
        InBatch(symbol) == outcome[symbol] = "batch"
        NotInBatch(symbol) == outcome[symbol] # "batch"
        Processed(symbol) == outcome[symbol] = "single"
        cached_symbols == SelectSeq(symbols, IsCached)
        uncached_symbols == SelectSeq(symbols, NotCached)
        batch_data == SelectSeq(uncached_symbols, InBatch)
        failed_symbols == SelectSeq(uncached_symbols, NotInBatch)
        single == SelectSeq(failed_symbols, Processed)
        batch_made == [symbol \in Universe |-> BatchResult(market[symbol])]
    IN  /\ cache' = CacheResults(CacheResults(cache, batch_data, batch_made),
                                 single, market)
        /\ screen' =
               [filters |-> filters, cached_symbols |-> cached_symbols,
                batch_symbols |-> batch_data, failed_symbols |-> failed_symbols,
                results |-> SortByScore(ApplyFilters(filters,
                                Gathered(cache, cached_symbols, batch_data,
                                         single)))]
        /\ UNCHANGED <<frames, dicts, tech, scoring, pc, step, acc, results,
                       observed, last, given, alone, reading, awarded, market,
                   portfolio, positions, trades, reply>>

\* what process_stock returns: the cached dict if there is one, else the
\* dict it makes when the fetch succeeds, else None
Returned(c, symbol, fetched) ==
    IF get_cached_data(c, symbol) # None THEN get_cached_data(c, symbol)
    ELSE IF fetched THEN Some(market[symbol])
    ELSE None

\* GET /api/v2/stock/{symbol}: process_stock returns the cached result, or
\* makes and caches one when the fetch succeeds
process_stock(symbol, fetched) ==
    /\ cache' = IF get_cached_data(cache, symbol) = None /\ fetched
                THEN set_cached_data(cache, symbol, market[symbol])
                ELSE cache
    /\ UNCHANGED <<frames, dicts, tech, scoring, pc, step, acc, results, observed,
                   last, given, alone, reading, awarded, screen, market,
                   portfolio, positions, trades, reply>>

\* CACHE_DURATION goes by: every timestamp is an hour old
CacheExpires ==
    /\ \E key \in Universe : cache[key].fresh
    /\ cache' = [key \in Universe |-> [cache[key] EXCEPT !.fresh = FALSE]]
    /\ UNCHANGED <<frames, dicts, tech, scoring, pc, step, acc, results, observed,
                   last, given, alone, reading, awarded, screen, market,
                   portfolio, positions, trades, reply>>

NextScreen ==
    \/ \E filters \in FilterChoices, symbols \in Orders, outcome \in Outcomes :
           screen_stocks(filters, symbols, outcome)
    \/ \E symbol \in Universe, fetched \in BOOLEAN : process_stock(symbol, fetched)
    \/ CacheExpires

SpecScreen == InitScreen /\ [][NextScreen]_vars

(* ------------------------------------------------------------------ *)
(* paper trading: trading_engine.py, models.py, schemas.py             *)
(* ------------------------------------------------------------------ *)

RECURSIVE Gcd(_, _)
Gcd(a, b) == IF b = 0 THEN a ELSE Gcd(b, a % b)

\* a Float column or a Python float that holds money: the fraction n / d of
\* a thousand rupees in lowest terms, d > 0 (the rounding of the floats is
\* left out: the arithmetic is exact)
Frac(n, d) == LET g == Gcd(Abs(n), d) IN [n |-> n \div g, d |-> d \div g]
Money(i) == [n |-> i, d |-> 1]
Plus(a, b) == Frac(a.n * b.d + b.n * a.d, a.d * b.d)
Minus(a, b) == Frac(a.n * b.d - b.n * a.d, a.d * b.d)
Times(a, b) == Frac(a.n * b.n, a.d * b.d)
Over(a, b) == Frac(Sgn(b.n) * a.n * b.d, a.d * Abs(b.n))
Less(a, b) == a.n * b.d < b.n * a.d

\* the longest list of Trade rows the model follows
MaxTrades == 3

\* Portfolio(cash_balance=1000000.0, initial_balance=1000000.0) with the
\* defaults of the other columns
NewPortfolio ==
    [cash_balance |-> Money(1000), initial_balance |-> Money(1000),
     total_invested |-> Money(0), total_profit_loss |-> Money(0),
     total_profit_loss_pct |-> Money(0)]

\* self.commission_rate = 0.001
commission_rate == Frac(1, 1000)

\* a commission of nothing
NoCommission(total_value) == Money(0)

calculate_commission(total_value) == Times(total_value, commission_rate)

\* what get_current_price returns: None, or the last close
Quotes == {None, Some(Money(400)), Some(Money(480))}

\* TradeCreate: quantity is an int > 0, limit_price an Optional float, here
\* left out of every market order and of some limit orders
TradeCreate ==
    {trade_data \in [symbol : Symbols, order_type : {"MARKET", "LIMIT"},
                     order_side : {"BUY", "SELL"}, quantity : {1, 2},
                     limit_price : {None, Some(Money(440))}] :
         trade_data.order_type = "MARKET" => trade_data.limit_price = None}

\* (x / y) * 100 if y > 0 else 0
PctOf(x, y) == IF Less(Money(0), y) THEN Times(Over(x, y), Money(100)) ELSE Money(0)

\* the Trade row of an executed order
Trade(trade_data, order_side, execution_price, total_value, commission) ==
    [symbol |-> trade_data.symbol, order_type |-> trade_data.order_type,
     order_side |-> order_side, order_status |-> "EXECUTED",
     quantity |-> trade_data.quantity, price |-> execution_price,
     limit_price |-> trade_data.limit_price, total_value |-> total_value,
     commission |-> commission]

\* a rejection that leaves a Trade row behind
RejectedOnRecord(trade_data, message) ==
    /\ reply' = [success |-> FALSE, message |-> message]
    /\ trades' = Append(trades, [symbol |-> trade_data.symbol, order_status |-> "REJECTED"])
    /\ UNCHANGED <<portfolio, positions>>

\* return False, message, None, None
Rejected(trade_data, message) ==
    /\ reply' = [success |-> FALSE, message |-> message]
    /\ UNCHANGED <<portfolio, positions, trades>>

\* a position whose average price is the price of the last buy
BoughtAtLastPrice(position, trade_data, execution_price, current_price, total_value) ==
    LET quantity == trade_data.quantity
                        + (IF position # None THEN position[1].quantity ELSE 0)
    IN  [quantity |-> quantity,
         average_buy_price |-> execution_price,
         current_price |-> current_price,
         total_invested |-> Times(execution_price, Money(quantity)),
         current_value |-> Times(current_price, Money(quantity)),
         profit_loss |-> Minus(Times(current_price, Money(quantity)),
                               Times(execution_price, Money(quantity))),
         profit_loss_pct |-> Money(0)]

\* the position of the symbol after the buy: the one there is with the
\* average price weighed again, or a new one
Bought(position, trade_data, execution_price, current_price, total_value) ==
    IF position # None
    THEN LET old == position[1]
             total_quantity == old.quantity + trade_data.quantity
             total_cost == Plus(Times(old.average_buy_price, Money(old.quantity)),
                                total_value)
             average_buy_price == Over(total_cost, Money(total_quantity))
             total_invested == Times(average_buy_price, Money(total_quantity))
             current_value == Times(current_price, Money(total_quantity))
             profit_loss == Minus(current_value, total_invested)
         IN  [quantity |-> total_quantity,
              average_buy_price |-> average_buy_price,
              current_price |-> current_price,
              total_invested |-> total_invested,
              current_value |-> current_value,
              profit_loss |-> profit_loss,
              profit_loss_pct |-> PctOf(profit_loss, total_invested)]
    ELSE [quantity |-> trade_data.quantity,
          average_buy_price |-> execution_price,
          current_price |-> current_price,
          total_invested |-> total_value,
          current_value |-> Times(current_price, Money(trade_data.quantity)),
          profit_loss |-> Money(0),
          profit_loss_pct |-> Money(0)]

\* TradingEngine.execute_buy_order, price being what get_current_price returns
execute_buy_order(trade_data, price) ==
    LET current_price == price[1]
        limit == trade_data.order_type = "LIMIT"
        execution_price == IF limit THEN trade_data.limit_price[1] ELSE current_price
        total_value == Times(execution_price, Money(trade_data.quantity))
        commission == calculate_commission(total_value)
        total_cost == Plus(total_value, commission)
    IN  /\ trade_data.order_side = "BUY"
        /\ Len(trades) < MaxTrades
        /\ IF price = None
           THEN Rejected(trade_data, "Could not fetch price")
           ELSE IF limit /\ trade_data.limit_price = None
           THEN Rejected(trade_data, "Limit price is required for LIMIT orders")
           ELSE IF limit /\ Less(trade_data.limit_price[1], current_price)
           THEN Rejected(trade_data, "Current price is above your limit price")
           ELSE IF Less(portfolio.cash_balance, total_cost)
           THEN Rejected(trade_data, "Insufficient funds")
           ELSE /\ trades' = Append(trades, Trade(trade_data, "BUY", execution_price,
                                                  total_value, commission))
                /\ portfolio' =
                       [portfolio EXCEPT
                            !.cash_balance = Minus(@, total_cost),
                            !.total_invested = Plus(@, total_value)]
                /\ positions' =
                       [positions EXCEPT ![trade_data.symbol] =
                            Some(Bought(@, trade_data, execution_price,
                                        current_price, total_value))]
                /\ reply' = [success |-> TRUE,
                             message |-> "Successfully bought"]
        /\ UNCHANGED <<frames, dicts, tech, scoring, pc, step, acc, results, observed,
                       last, given, alone, reading, awarded, cache, screen, market>>

\* a position that stays in the table with no share left
AfterSaleKept(old, quantity, current_price) ==
    Some([old EXCEPT !.quantity = quantity, !.current_price = current_price])

\* the position after the sale: deleted when no share is left, else valued
\* again
AfterSale(old, quantity, current_price) ==
    LET total_invested == Times(old.average_buy_price, Money(quantity))
        current_value == Times(current_price, Money(quantity))
        profit_loss == Minus(current_value, total_invested)
    IN  IF quantity = 0 THEN None
        ELSE Some([old EXCEPT !.quantity = quantity,
                              !.current_price = current_price,
                              !.total_invested = total_invested,
                              !.current_value = current_value,
                              !.profit_loss = profit_loss,
                              !.profit_loss_pct = PctOf(profit_loss, total_invested)])

\* TradingEngine.execute_sell_order
execute_sell_order(trade_data, price) ==
    LET position == positions[trade_data.symbol]
        current_price == price[1]
        limit == trade_data.order_type = "LIMIT"
        execution_price == IF limit THEN trade_data.limit_price[1] ELSE current_price
        total_value == Times(execution_price, Money(trade_data.quantity))
        commission == calculate_commission(total_value)
        net_proceeds == Minus(total_value, commission)
        cost_basis == Times(position[1].average_buy_price, Money(trade_data.quantity))
        trade_pnl == Minus(total_value, cost_basis)
        total_profit_loss == Plus(portfolio.total_profit_loss, trade_pnl)
        quantity == position[1].quantity - trade_data.quantity
    IN  /\ trade_data.order_side = "SELL"
        /\ Len(trades) < MaxTrades
        /\ IF position = None
           THEN Rejected(trade_data, "You don't own any shares")
           ELSE IF position[1].quantity < trade_data.quantity
           THEN Rejected(trade_data, "Insufficient shares")
           ELSE IF price = None
           THEN Rejected(trade_data, "Could not fetch price")
           ELSE IF limit /\ trade_data.limit_price = None
           THEN Rejected(trade_data, "Limit price is required for LIMIT orders")
           ELSE IF limit /\ Less(current_price, trade_data.limit_price[1])
           THEN Rejected(trade_data, "Current price is below your limit price")
           ELSE /\ trades' = Append(trades, Trade(trade_data, "SELL", execution_price,
                                                  total_value, commission))
                /\ portfolio' =
                       [portfolio EXCEPT
                            !.cash_balance = Plus(@, net_proceeds),
                            !.total_invested = Minus(@, cost_basis),
                            !.total_profit_loss = total_profit_loss,
                            !.total_profit_loss_pct =
                                IF Less(Money(0), portfolio.initial_balance)
                                THEN Times(Over(total_profit_loss,
                                                portfolio.initial_balance), Money(100))
                                ELSE @]
                /\ positions' =
                       [positions EXCEPT ![trade_data.symbol] =
                            AfterSale(position[1], quantity, current_price)]
                /\ reply' = [success |-> TRUE,
                             message |-> "Successfully sold"]
        /\ UNCHANGED <<frames, dicts, tech, scoring, pc, step, acc, results, observed,
                       last, given, alone, reading, awarded, cache, screen, market>>

\* the body of the loop of update_portfolio_values for one position
Repriced(old, current_price) ==
    LET current_value == Times(current_price, Money(old.quantity))
        profit_loss == Minus(current_value, old.total_invested)
    IN  [old EXCEPT !.current_price = current_price,
                    !.current_value = current_value,
                    !.profit_loss = profit_loss,
                    !.profit_loss_pct = PctOf(profit_loss, old.total_invested)]

\* the sum of F(p) over a set of symbols
RECURSIVE SumOfMoney(_, _)
SumOfMoney(S, F) ==
    IF S = {} THEN Money(0)
    ELSE LET p == CHOOSE q \in S : TRUE IN Plus(F[p], SumOfMoney(S \ {p}, F))

Held == {p \in Symbols : positions[p] # None}

\* TradingEngine.update_portfolio_values, prices[p] being what
\* get_current_price returns for p
update_portfolio_values(prices) ==
    LET updated == {p \in Held : prices[p] # None}
        total_pnl == SumOfMoney(updated, [p \in Symbols |->
                         IF p \in updated
                         THEN Repriced(positions[p][1], prices[p][1]).profit_loss
                         ELSE Money(0)])
    IN  /\ positions' = [p \in Symbols |->
                            IF p \in updated
                            THEN Some(Repriced(positions[p][1], prices[p][1]))
                            ELSE positions[p]]
        /\ portfolio' =
               [portfolio EXCEPT
                    !.total_profit_loss = total_pnl,
                    !.total_profit_loss_pct =
                        IF Less(Money(0), portfolio.initial_balance)
                        THEN Times(Over(total_pnl, portfolio.initial_balance), Money(100))
                        ELSE @]
        /\ UNCHANGED <<frames, dicts, tech, scoring, pc, step, acc, results, observed,
                       last, given, alone, reading, awarded, cache, screen, market,
                       trades, reply>>

\* no order has been handled
NoReply == [success |-> TRUE, message |-> ""]

InitTrading ==
    /\ Fetched([p \in Symbols |-> <<"rise", "const", 1, "none">>])
    /\ NoRules /\ NoScreen
    /\ portfolio = NewPortfolio
    /\ positions = [p \in Symbols |-> None]
    /\ trades = <<>>
    /\ reply = NoReply

NextTrading ==
    \/ \E trade_data \in TradeCreate, price \in Quotes :
           execute_buy_order(trade_data, price)
    \/ \E trade_data \in TradeCreate, price \in Quotes :
           execute_sell_order(trade_data, price)
    \/ \E prices \in [Symbols -> Quotes] : update_portfolio_values(prices)

SpecTrading == InitTrading /\ [][NextTrading]_vars

\* orders only: update_portfolio_values is never called
NextOrders ==
    \/ \E trade_data \in TradeCreate, price \in Quotes :
           execute_buy_order(trade_data, price)
    \/ \E trade_data \in TradeCreate, price \in Quotes :
           execute_sell_order(trade_data, price)

SpecOrders == InitTrading /\ [][NextOrders]_vars

(* ------------------------------------------------------------------ *)
(* properties of the pipeline                                          *)
(* ------------------------------------------------------------------ *)

CategorySet == {Categories[i] : i \in 1..6}

\* every result a caller has read from p's engine
ResultsRead(p) == {observed[p][i] : i \in DOMAIN observed[p]}

\* C1: in every result calculate_total_score returns, the category scores
\* are those of the six categories, each between 0 and its cap (25, 35, 20,
\* 25, 10, 5), and total_score is exactly the sum of the six stored values
C1_CapsAndExactSum ==
    \A p \in Symbols : \A r \in ResultsRead(p) :
        /\ DOMAIN r.category_scores = CategorySet
        /\ \A c \in CategorySet : r.category_scores[c] \in 0..Cap(c)
        /\ r.total_score = SumTo(r.category_scores, 6)

\* a result in which a category has reached its cap and another has not
C1_Witness ==
    \E p \in Symbols : \E r \in ResultsRead(p) :
        /\ r.category_scores["Trend Alignment"] = Cap("Trend Alignment")
        /\ r.category_scores["Momentum & Strength"] \in 1..(Cap("Momentum & Strength") - 1)
        /\ r.total_score > 100

\* C2: for a series of at least one bar no score_* method and no call of
\* calculate_total_score ends with an exception, and every result has a total
\* from 0 to 120 and one of the six labels
C2_NonEmptyNeverRaises ==
    \A p \in Symbols :
        Len(given[p].bars) >= 1 =>
            /\ pc[p] # "raised"
            /\ \A r \in ResultsRead(p) :
                   r.total_score \in 0..MaxTotal /\ r.classification \in Labels

\* the result for a series of a single bar
C2_Witness ==
    \E p \in Symbols :
        /\ Len(given[p].bars) = 1
        /\ pc[p] = "returned"
        /\ observed[p] # <<>>

\* C3: the label of a total is "Exceptional" from 100, "Very High" from 85
\* to 99, "High" from 70 to 84, "Medium" from 55 to 69, "Low" from 40 to 54
\* and "Weak" below 40: each tier includes its lower bound
C3_InclusiveThresholds ==
    \A p \in Symbols : \A r \in ResultsRead(p) :
        /\ r.total_score >= 100 <=> r.classification = "Exceptional"
        /\ r.total_score \in 85..99 <=> r.classification = "Very High"
        /\ r.total_score \in 70..84 <=> r.classification = "High"
        /\ r.total_score \in 55..69 <=> r.classification = "Medium"
        /\ r.total_score \in 40..54 <=> r.classification = "Low"
        /\ r.total_score < 40 <=> r.classification = "Weak"

\* totals of exactly 100 and exactly 85 with their labels
C3_Witness ==
    /\ \E r \in ResultsRead("RELIANCE") :
           r.total_score = 100 /\ r.classification = "Exceptional"
    /\ \E r \in ResultsRead("TCS") :
           r.total_score = 85 /\ r.classification = "Very High"

\* the tiers from the lowest to the highest
TierOrder == <<"Weak", "Low", "Medium", "High", "Very High", "Exceptional">>
Rank(label) == CHOOSE i \in 1..6 : TierOrder[i] = label

\* C4: of two totals s1 < s2 between 0 and 120 the label of s1 is never of a
\* higher tier than the label of s2, in the order Weak < Low < Medium < High <
\* Very High < Exceptional
C4_Monotone ==
    \A p \in Symbols, q \in Symbols :
        \A r1 \in ResultsRead(p), r2 \in ResultsRead(q) :
            r1.total_score < r2.total_score =>
                /\ r1.classification \in Labels /\ r2.classification \in Labels
                /\ Rank(r1.classification) <= Rank(r2.classification)

\* two totals next to each other on the two sides of a threshold
C4_Witness ==
    \E r1 \in ResultsRead("RELIANCE"), r2 \in ResultsRead("TCS") :
        /\ r1.total_score = 69 /\ r2.total_score = 70
        /\ Rank(r1.classification) < Rank(r2.classification)

\* p's TechnicalEngine has returned from calculate_all_indicators
HasAugmented(p) == pc[p] \in {"augmented", "constructed", "scoring", "returned"}

\* C5: the pipeline is deterministic: two pipelines given the same series make
\* the same augmented frame and return the same total, classification and
\* category scores, and every further call of calculate_total_score on one
\* engine returns what the first call returned (nothing accumulates)
C5_Deterministic ==
    /\ \A p \in Symbols : \A i \in DOMAIN observed[p] :
           /\ observed[p][i] = observed[p][1]
           /\ pc[p] = "returned" => observed[p][i].total_score = scoring[p].total
    /\ \A p \in Symbols, q \in Symbols :
           given[p] = given[q] =>
               /\ HasAugmented(p) /\ HasAugmented(q) =>
                      frames[tech[p].df] = frames[tech[q].df]
               /\ observed[p] # <<>> /\ observed[q] # <<>> =>
                      observed[p][1] = observed[q][1]

\* two engines given the same series, each called twice, the total not 0
C5_Witness ==
    /\ given["RELIANCE"] = given["TCS"]
    /\ \A p \in Symbols :
           /\ Len(observed[p]) = 2
           /\ pc[p] = "returned"
           /\ observed[p][2].total_score > 0

\* a step in which a score_* method of p's engine has returned
ScoreStep(p) ==
    /\ scoring[p] # NoEngine
    /\ scoring'[p] = scoring[p]
    /\ last'[p] # <<>>
    /\ pc'[p] # "raised"

\* C6: a score_* method writes the entry of its own category and nothing
\* else (no other entry, not the total, not the frame), and the value it
\* writes and returns is the value of that category for the augmented frame,
\* whichever of the other methods have run before it and in whichever order
C6_OwnEntryOnly ==
    [][\A p \in Symbols :
          ScoreStep(p) =>
              LET c == last'[p][1]
                  old == dicts[scoring[p].scores]
                  new == dicts'[scoring[p].scores]
              IN  /\ DOMAIN new = DOMAIN old \cup {c}
                  /\ \A k \in DOMAIN old \ {c} : new[k] = old[k]
                  /\ new[c] = last'[p][2]
                  /\ new[c] = alone[p].category_scores[c]
                  /\ frames' = frames]_vars

\* the methods of two categories called without the others, the later one
\* first in the order of calculate_total_score
C6_Witness ==
    /\ pc[Engine] = "constructed"
    /\ DOMAIN dicts[scoring[Engine].scores] = {"Ichimoku Cloud", "Volume & Liquidity"}
    /\ last[Engine][1] = "Volume & Liquidity"
    /\ last[Engine][2] > 0

\* C7: pipelines of different symbols that run side by side share no object
\* that is written (each has a frame and a dict of its own), and what each
\* returns, and holds afterwards, is what it returns when it runs alone
C7_NoCrossTalk ==
    /\ \A p \in Symbols :
           /\ \A r \in ResultsRead(p) : r = alone[p]
           /\ pc[p] = "returned" =>
                  /\ dicts[scoring[p].scores] = alone[p].category_scores
                  /\ frames[scoring[p].df] = Augmented(given[p])
    /\ \A p \in Symbols, q \in Symbols :
           p # q =>
               /\ tech[p] # NoEngine /\ tech[q] # NoEngine => tech[p].df # tech[q].df
               /\ scoring[p] # NoEngine /\ scoring[q] # NoEngine =>
                      /\ scoring[p].df # scoring[q].df
                      /\ scoring[p].scores # scoring[q].scores

\* one pipeline has returned while the other, on another series, is in the
\* middle of its sum
C7_Witness ==
    \E p \in Symbols, q \in Symbols :
        /\ given[p] # given[q]
        /\ alone[p] # alone[q]
        /\ pc[p] = "returned" /\ observed[p] # <<>>
        /\ pc[q] = "scoring" /\ step[q] \in 1..5

\* C8: the TechnicalEngine never changes the frame it was given: the caller's
\* frame keeps its rows and its columns, and the indicator columns are added
\* to the engine's own copy only
C8_InputNeverMutated ==
    \A p \in Symbols :
        /\ frames[InputLoc(p)] = given[p]
        /\ tech[p] # NoEngine => tech[p].df # InputLoc(p)
        /\ HasAugmented(p) =>
               /\ IndicatorColumns \subseteq frames[tech[p].df].cols
               /\ frames[tech[p].df].bars = given[p].bars

\* an augmented copy beside the caller's frame, which has the raw columns only
C8_Witness ==
    \E p \in Symbols :
        /\ HasAugmented(p)
        /\ Len(given[p].bars) > 0
        /\ IndicatorColumns \subseteq frames[tech[p].df].cols
        /\ frames[InputLoc(p)].cols = RawColumns

Invalid(bars) ==
    \/ bars = <<>>
    \/ \E i \in 2..Len(bars) : bars[i].Date <= bars[i - 1].Date
    \/ \E i \in 1..Len(bars) :
           \/ bars[i].Volume < 0
           \/ bars[i].Low > Min2(bars[i].Open, bars[i].Close)
           \/ bars[i].High < Max2(bars[i].Open, bars[i].Close)

\* C10: for an invalid price series the TechnicalEngine signals an error and
\* makes no augmented frame
C10_InvalidRejected ==
    \A p \in Symbols : Invalid(given[p].bars) => ~HasAugmented(p)

\* the rows of the frame p's pipeline was given, and the last of them
BarsOf(p) == given[p].bars
LastOf(p) == Len(given[p].bars)

NoLossIn14(b, n) ==
    /\ n >= 15
    /\ \A j \in (n - 13)..n : b[j].Close >= b[j - 1].Close

\* C12: the RSI at the latest bar is 100 whenever the trailing 14-sample average
\* loss is zero, also when the average gain is zero too (constant closes).
C12_ZeroLossSaturates ==
    \A p \in Symbols :
        HasAugmented(p) /\ NoLossIn14(BarsOf(p), LastOf(p)) =>
            RSI(BarsOf(p), LastOf(p)) = Real(100)

\* the columns whose value at row n needs no division by a rolling statistic
\* that can be zero on a well-formed series of positive prices
DefinedAlways(b, n) ==
    /\ notna(EMA_20(b, n)) /\ notna(SMA_50(b, n)) /\ notna(SMA_200(b, n))
    /\ notna(EMA_20_slope(b, n)) /\ notna(SMA_50_slope(b, n))
    /\ notna(SMA_200_slope(b, n))
    /\ notna(ROC(b, n))
    /\ notna(MACD(b, n)) /\ notna(MACD_Signal(b, n)) /\ notna(MACD_Hist(b, n))
    /\ notna(Hist_Momentum(b, n))
    /\ notna(Vol_SMA_20(b, n)) /\ notna(Vol_SMA_50(b, n))
    /\ notna(OBV(b, n)) /\ notna(OBV_EMA(b, n))
    /\ notna(BB_Upper(b, n)) /\ notna(BB_Middle(b, n)) /\ notna(BB_Lower(b, n))
    /\ notna(ATR(b, n)) /\ notna(ATR_Percent(b, n))
    /\ notna(High_52W(b, n)) /\ notna(High_4W(b, n)) /\ notna(High_2W(b, n))

\* the columns that are a quotient of two rolling statistics
DefinedAll(b, n) ==
    /\ DefinedAlways(b, n)
    /\ notna(RSI(b, n)) /\ notna(BB_Position(b, n)) /\ notna(Vol_Ratio(b, n))
    /\ notna(ADX(b, n)) /\ notna(Plus_DI(b, n)) /\ notna(Minus_DI(b, n))
    /\ notna(DI_Spread(b, n))

\* some close of the 14 changes that end at row n differs from the one before
CloseMoved(b, n) == \E j \in (n - 13)..n : b[j].Close # b[j - 1].Close

\* the 20 closes that end at row n are not all the same
CloseSpread(b, n) == \E j \in (n - 19)..n : b[j].Close # b[n].Close

\* some bar of the 14 that end at row j has a true range above zero
RangeIn14(b, j) ==
    \E k \in (j - 13)..j : b[k].High # b[k].Low \/ b[k].High # b[k - 1].Close

\* some bar of the 14 that end at row j has a directional move, up or down
MoveIn14(b, j) ==
    \E k \in (j - 13)..j :
        LET up == b[k].High - b[k - 1].High
            down == b[k - 1].Low - b[k].Low
        IN  (up > down /\ up > 0) \/ (down > up /\ down > 0)

\* C13 as stated: on a well-formed series of at least 252 bars every
\* indicator column is defined at the last row.
C13_AllDefinedAt252 ==
    \A p \in Symbols :
        HasAugmented(p) /\ LastOf(p) >= 252 /\ ~Invalid(BarsOf(p)) =>
            DefinedAll(BarsOf(p), LastOf(p))

\* C13: on a well-formed series of at least 252 bars the moving averages and
\* their slopes, ROC, the MACD fields, the volume averages, OBV and its EMA, the
\* Bollinger bands, ATR, ATR% and the 52/4/2-week highs are defined at the last
\* row; RSI is defined exactly when a close moved in its 14 changes, the band
\* position exactly when the 20 closes are not all equal, the volume ratio
\* exactly when a volume of the last 20 is not zero, and ADX exactly when each
\* of its 14 windows holds a directional move; +DI, -DI and their spread are
\* defined when a true range of the last 14 is not zero.
C13_DefinedUnlessZeroDivisor ==
    \A p \in Symbols :
        LET b == BarsOf(p)  n == LastOf(p)
        IN  HasAugmented(p) /\ n >= 252 /\ ~Invalid(b) =>
                /\ DefinedAlways(b, n)
                /\ notna(RSI(b, n)) <=> CloseMoved(b, n)
                /\ notna(BB_Position(b, n)) <=> CloseSpread(b, n)
                /\ notna(Vol_Ratio(b, n)) <=> \E j \in (n - 19)..n : b[j].Volume # 0
                /\ RangeIn14(b, n) =>
                       notna(Plus_DI(b, n)) /\ notna(Minus_DI(b, n)) /\ notna(DI_Spread(b, n))
                /\ notna(ADX(b, n)) <=>
                       \A j \in (n - 13)..n : RangeIn14(b, j) /\ MoveIn14(b, j)

C13_Witness ==
    \E p \in Symbols :
        /\ HasAugmented(p) /\ LastOf(p) >= 252 /\ ~Invalid(BarsOf(p))
        /\ ~CloseSpread(BarsOf(p), LastOf(p))
        /\ ~notna(BB_Position(BarsOf(p), LastOf(p)))
        /\ ~notna(ADX(BarsOf(p), LastOf(p)))
        /\ notna(SMA_200_slope(BarsOf(p), LastOf(p)))

\* a series of n bars whose closes are all the same and whose volumes are all
\* the same
FlatSeries(b, n) ==
    /\ Len(b) = n
    /\ \A j \in 1..n : b[j].Close = b[1].Close /\ b[j].Volume = b[1].Volume

\* C14: on a flat series of 260 bars (constant close, constant volume) the
\* Momentum & Strength category scores 0, and of Volume & Liquidity only the
\* OBV sub-rule scores (6: the OBV stands at its 50-bar high), the
\* volume-ratio tiers and the volume/price co-trend giving 0.
C14_FlatScoresNoGrowth ==
    \A p \in Symbols : \A r \in ResultsRead(p) :
        FlatSeries(BarsOf(p), 260) =>
            /\ r.category_scores["Momentum & Strength"] = 0
            /\ r.category_scores["Volume & Liquidity"] = 6

C14_Witness ==
    \E p \in Symbols : \E r \in ResultsRead(p) :
        /\ FlatSeries(BarsOf(p), 260)
        /\ BarsOf(p)[1].Volume > 0
        /\ r.category_scores["Momentum & Strength"] = 0
        /\ r.category_scores["Volume & Liquidity"] = 6

\* the close of row n is at least 0.995 times the highest high of the w rows
\* that end at row n - 1, the rolling high of the bar before the latest
NearPriorHigh(b, n, w) ==
    /\ n - 1 >= w
    /\ \A j \in (n - w)..(n - 1) : 1000 * b[n].Close >= 995 * b[j].High

\* the volume of row n is above 150 percent of the mean of the 20 volumes
\* that end at row n
VolumeAbove150(b, n) ==
    LET V(j) == b[j].Volume
    IN  n >= 20 /\ 20 * 100 * b[n].Volume > 150 * SumOver(V, n - 19, n)

\* the tiers of the breakout sub-rule, the first that matches
BreakoutTier(b, n) ==
    IF NearPriorHigh(b, n, 252) /\ VolumeAbove150(b, n) THEN 8
    ELSE IF NearPriorHigh(b, n, 20) THEN 7
    ELSE IF NearPriorHigh(b, n, 10) THEN 5
    ELSE 0

\* C19: the breakout sub-rule compares the latest close with the rolling highs
\* at the bar before the latest: 8 if the close is at least 0.995 times the
\* prior 52-week high and the volume ratio is above 150, else 7 if at least
\* 0.995 times the prior 4-week high, else 5 if at least 0.995 times the prior
\* 2-week high, else 0; the Price Action score is this tier plus the weekly
\* momentum and support points.
C19_BreakoutOnPriorHighs ==
    \A p \in Symbols : \A r \in ResultsRead(p) :
        LET b == BarsOf(p)  n == LastOf(p)
        IN  n >= 2 /\ ~Invalid(b) =>
                r.category_scores["Price Action & Breakouts"] =
                    WeeklyMomentum(Consecutive(b, WeeklyCount(n) - 1))
                        + BreakoutTier(b, n) + SupportResistance(b, n)

C19_Witness ==
    \E p \in Symbols : \E r \in ResultsRead(p) :
        LET b == BarsOf(p)  n == LastOf(p)
        IN  /\ n >= 253 /\ ~Invalid(b)
            /\ NearPriorHigh(b, n, 252) /\ ~VolumeAbove150(b, n)
            /\ r.category_scores["Price Action & Breakouts"] =
                   WeeklyMomentum(Consecutive(b, WeeklyCount(n) - 1))
                       + 7 + SupportResistance(b, n)

\* the tiers of the ATR sub-rule on the percent change from past to current:
\* 4 in [10, 20], 3 in [-5, 10), 2 in [-10, -5), 0 elsewhere or when undefined
AtrTier(current, past) ==
    LET change == FPercent(FSub(current, past), past)
    IN  IF ~notna(current) \/ ~notna(past) THEN 0
        ELSE IF Ge(change, Real(10)) /\ Le(change, Real(20)) THEN 4
        ELSE IF Ge(change, Real(-5)) /\ Lt(change, Real(10)) THEN 3
        ELSE IF Ge(change, Real(-10)) /\ Lt(change, Real(-5)) THEN 2
        ELSE 0

\* C20: the ATR sub-rule of Volatility & Risk scores the percent change of
\* ATR% from the bar 10 positions before the latest bar to the latest bar, as
\* ROC(10) does for the close: the Volatility score is the Bollinger position
\* points plus the tier of that change.
C20_AtrChangeOverTenBars ==
    \A p \in Symbols : \A r \in ResultsRead(p) :
        LET b == BarsOf(p)  n == LastOf(p)
        IN  n >= 11 /\ ~Invalid(b) =>
                r.category_scores["Volatility & Risk"] =
                    BollingerPosition(BB_Position(b, n))
                        + AtrTier(ATR_Percent(b, n), ATR_Percent(b, n - 10))

\* the points the sub-rules have added, of those that have run
PointsOf(rule) == {awarded[rule][i] : i \in DOMAIN awarded[rule]}

\* C17 as stated: a latest close above a defined SMA50 earns at least 7 points
\* from the price position sub-rule.
C17_AboveSma50EarnsSeven ==
    \A pts \in PointsOf("Price Position") :
        notna(reading.sma50) /\ Gt(reading.current, reading.sma50) => pts >= 7

\* C17: the price position sub-rule scores only when EMA20, SMA50 and SMA200
\* are all defined at the latest bar, and then the first row that matches, top
\* to bottom: 12 if close > EMA20 > SMA50 > SMA200, else 10 if close > SMA50 >
\* SMA200, else 7 if close > SMA50, else 4 if close > 0.97 x SMA50, else 0;
\* with any of the three undefined it gives 0.
C17_AllThreeThenFirstMatch ==
    \A pts \in PointsOf("Price Position") :
        LET c == reading.current
            e == reading.ema20
            m == reading.sma50
            l == reading.sma200
            all3 == e.k = "num" /\ m.k = "num" /\ l.k = "num"
            row12 == c.v > e.v /\ e.v > m.v /\ m.v > l.v
            row10 == c.v > m.v /\ m.v > l.v
            row7 == c.v > m.v
            row4 == 100 * c.v > 97 * m.v
        IN  /\ pts \in {0, 4, 7, 10, 12}
            /\ pts = 12 <=> all3 /\ row12
            /\ pts = 10 <=> all3 /\ ~row12 /\ row10
            /\ pts = 7 <=> all3 /\ ~row12 /\ ~row10 /\ row7
            /\ pts = 4 <=> all3 /\ ~row12 /\ ~row10 /\ ~row7 /\ row4

C17_Witness ==
    \E pts \in PointsOf("Price Position") :
        /\ notna(reading.sma50) /\ Gt(reading.current, reading.sma50)
        /\ ~notna(reading.sma200)
        /\ pts = 0

\* C18: for a defined RSI the RSI sub-rule gives 8 for 60 <= RSI <= 70, 6 for
\* 55 <= RSI < 60, 4 for 50 <= RSI < 55, 2 for 45 <= RSI < 50 and 0 below 45
\* or above 70: one tier, never the sum of two bands.
C18_RsiOneTier ==
    \A pts \in PointsOf("RSI") :
        LET v == reading.rsi.v
        IN  reading.rsi.k = "num" =>
                pts = CASE 60 * Scale <= v /\ v <= 70 * Scale -> 8
                        [] 55 * Scale <= v /\ v < 60 * Scale -> 6
                        [] 50 * Scale <= v /\ v < 55 * Scale -> 4
                        [] 45 * Scale <= v /\ v < 50 * Scale -> 2
                        [] OTHER -> 0

C18_Witness ==
    \E pts \in PointsOf("RSI") : reading.rsi = Real(60) /\ pts = 8

\* C15: the results screen_stocks returns are in descending order of
\* total_score: of two adjacent results the earlier has at least the score of
\* the later, whatever mix of cached, batch and single results it holds.
C15_SortedDescending ==
    \A i \in 1..(Len(screen.results) - 1) :
        screen.results[i].total_score >= screen.results[i + 1].total_score

C15_Witness ==
    /\ Len(screen.results) = 3
    /\ Len(screen.cached_symbols) = 1
    /\ Len(screen.batch_symbols) = 1
    /\ Len(screen.failed_symbols) = 1
    /\ screen.results[1].total_score > screen.results[2].total_score
    /\ screen.results[2].total_score = screen.results[3].total_score

\* C16: every result screen_stocks returns satisfies every bound the caller
\* supplied, a bound of 0 included: min_score <= total_score <= max_score,
\* adx >= min_adx, rsi_min <= rsi <= rsi_max, the sector among the sectors
\* asked for, min_price <= price <= max_price.
C16_EveryBoundApplied ==
    \A i \in 1..Len(screen.results) :
        LET r == screen.results[i]
            f == screen.filters
        IN  /\ f.min_score # None => r.total_score >= f.min_score[1]
            /\ f.max_score # None => r.total_score <= f.max_score[1]
            /\ f.min_adx # None /\ r.indicators.adx # None =>
                   r.indicators.adx[1].v >= f.min_adx[1] * Scale
            /\ f.rsi_min # None /\ r.indicators.rsi # None =>
                   r.indicators.rsi[1].v >= f.rsi_min[1] * Scale
            /\ f.rsi_max # None /\ r.indicators.rsi # None =>
                   r.indicators.rsi[1].v <= f.rsi_max[1] * Scale
            /\ f.sectors # None => r.sector \in f.sectors[1]
            /\ f.min_price # None => r.price.v >= f.min_price[1] * Scale
            /\ f.max_price # None => r.price.v <= f.max_price[1] * Scale

\* the close of the k-th of the samples taken every 5 bars from 35 bars
\* before the end (from the first bar of a shorter series), k from 1
SampledClose(b, n, k) == b[(IF n > 35 THEN n - 34 ELSE 1) + 5 * (k - 1)].Close

\* the number of these samples
SampleCount(n) == (n - (IF n > 35 THEN n - 34 ELSE 1)) \div 5 + 1

\* the length of the run of rising samples that ends at the latest sample
RisingRun(b, n) ==
    LET m == SampleCount(n)
    IN  CHOOSE k \in 0..(m - 1) :
            /\ \A j \in 1..k : SampledClose(b, n, m - j + 1) > SampledClose(b, n, m - j)
            /\ k = m - 1 \/ SampledClose(b, n, m - k) <= SampledClose(b, n, m - k - 1)

StreakPoints(k) ==
    CASE k >= 5 -> 10 [] k \in {3, 4} -> 7 [] k = 2 -> 4 [] k = 1 -> 2 [] OTHER -> 0

\* C21: the streak is the run of samples, taken every 5 bars, that rise
\* strictly up to the latest sample, cut at the first sample that does not
\* rise; it earns 10 from 5 on, 7 from 3, 4 for 2, 2 for 1, else 0, and the
\* Price Action score is these points plus the breakout and support points.
C21_StreakStopsAtBreak ==
    \A p \in Symbols : \A r \in ResultsRead(p) :
        LET b == BarsOf(p)  n == LastOf(p)
        IN  n >= 2 /\ ~Invalid(b) =>
                r.category_scores["Price Action & Breakouts"] =
                    StreakPoints(RisingRun(b, n)) + BreakoutTier(b, n)
                        + SupportResistance(b, n)

C21_Witness ==
    \E p \in Symbols : \E r \in ResultsRead(p) :
        LET b == BarsOf(p)  n == LastOf(p)  m == SampleCount(LastOf(p))
        IN  /\ n >= 35 /\ ~Invalid(b)
            /\ RisingRun(b, n) \in 1..4
            /\ \E j \in 1..(m - 1 - RisingRun(b, n)) :
                   SampledClose(b, n, j + 1) > SampledClose(b, n, j)
            /\ r.category_scores["Price Action & Breakouts"] =
                   StreakPoints(RisingRun(b, n)) + BreakoutTier(b, n)
                       + SupportResistance(b, n)

\* a bar with another close, its high and low moved to hold it
WithClose(bar, c) ==
    [bar EXCEPT !.Close = c, !.High = Max2(bar.High, c + 1), !.Low = Min2(bar.Low, c - 1)]

\* the bars b with the closes c of the last four bars
WithLastFour(b, c) ==
    SubSeq(b, 1, Len(b) - 4)
        \o <<WithClose(b[Len(b) - 3], c[1]), WithClose(b[Len(b) - 2], c[2]),
             WithClose(b[Len(b) - 1], c[3]), WithClose(b[Len(b)], c[4])>>

\* the bars b with the close c at the bar 5 before the end
WithFifthLast(b, c) ==
    SubSeq(b, 1, Len(b) - 5) \o <<WithClose(b[Len(b) - 4], c)>>
        \o SubSeq(b, Len(b) - 3, Len(b))

\* closes far below and far above those of every series
LastFourCloses ==
    {<<2, 2, 2, 2>>, <<9000, 9000, 9000, 9000>>, <<2, 9000, 2, 9000>>, <<9000, 3, 2, 4>>}

\* the streak points of score_price_action_breakouts on the bars b
StreakPointsOn(b) == WeeklyMomentum(Consecutive(b, WeeklyCount(Len(b)) - 1))

\* C29: on a series of at least 35 bars the streak is at most 6 and its
\* points do not depend on the last four closes: the points in a result are
\* those of every series that differs from the scored one in its last four
\* closes only.
C29_StreakIgnoresLastFour ==
    \A p \in Symbols : \A r \in ResultsRead(p) :
        LET b == BarsOf(p)  n == LastOf(p)
        IN  n >= 35 /\ ~Invalid(b) =>
                /\ Consecutive(b, WeeklyCount(n) - 1) <= 6
                /\ \A c \in LastFourCloses :
                       StreakPointsOn(WithLastFour(b, c)) =
                           r.category_scores["Price Action & Breakouts"]
                               - BreakoutTier(b, n) - SupportResistance(b, n)

C29_Witness ==
    \E p \in Symbols : \E r \in ResultsRead(p) :
        LET b == BarsOf(p)  n == LastOf(p)
        IN  /\ n >= 35 /\ ~Invalid(b)
            /\ StreakPointsOn(WithLastFour(b, <<2, 9000, 2, 9000>>)) = 10
            /\ StreakPointsOn(WithFifthLast(b, 2)) = 0
            /\ r.category_scores["Price Action & Breakouts"] =
                   10 + BreakoutTier(b, n) + SupportResistance(b, n)

\* the OBV of row n is the highest of the OBV values of the last 50 rows
ObvAtHigh(b, n) ==
    \A j \in (IF n > 50 THEN n - 49 ELSE 1)..n : calculate_obv(b, n) >= calculate_obv(b, j)

\* C30: for a well-formed series of at least one bar the total is at least 5:
\* Volume & Liquidity holds at least the 2 points of the OBV sub-rule, 6 when
\* the OBV stands at the high of its last 50 values, and from two bars on Price
\* Action & Breakouts holds at least the 3 points of the low-trend sub-rule; a
\* total of 0 is returned for the empty series only.
C30_TotalAtLeastFive ==
    \A p \in Symbols : \A r \in ResultsRead(p) :
        LET b == BarsOf(p)  n == LastOf(p)
        IN  /\ r.total_score = 0 => n = 0
            /\ n >= 1 /\ ~Invalid(b) =>
                   /\ r.total_score >= 5
                   /\ r.category_scores["Volume & Liquidity"] >= 2
                   /\ ObvAtHigh(b, n) => r.category_scores["Volume & Liquidity"] >= 6
                   /\ n >= 2 => r.category_scores["Price Action & Breakouts"] >= 3

C30_Witness ==
    \E p \in Symbols : \E r \in ResultsRead(p) :
        /\ LastOf(p) >= 2 /\ ~Invalid(BarsOf(p))
        /\ ~ObvAtHigh(BarsOf(p), LastOf(p))
        /\ r.category_scores["Volume & Liquidity"] = 2
        /\ r.category_scores["Price Action & Breakouts"] = 3

\* the true range of row j in whole numbers: on the first row high - low
RangeOf(b, j) ==
    IF j = 1 THEN b[j].High - b[j].Low
    ELSE Max2(b[j].High - b[j].Low,
              Max2(Abs(b[j].High - b[j - 1].Close), Abs(b[j].Low - b[j - 1].Close)))

\* a is the mean of the N values F(i - N + 1), .., F(i) from row N on, and
\* undefined before
IsMeanOfWindow(a, F(_), N, i) ==
    IF i < N THEN ~notna(a)
    ELSE a = Num((Scale * SumOver(F, i - N + 1, i)) \div N)

\* a is the highest of the N highs of rows i - N + 1 .. i from row N on, and
\* undefined before
IsHighOfWindow(a, b, N, i) ==
    IF i < N THEN ~notna(a)
    ELSE /\ \E j \in (i - N + 1)..i : a = Real(b[j].High)
         /\ \A j \in (i - N + 1)..i : a.v >= Scale * b[j].High

\* every rolling column of the frame follows the trailing-window convention
\* at every row
WindowsTrail(b) ==
    LET C(j) == b[j].Close
        V(j) == b[j].Volume
        T(j) == RangeOf(b, j)
    IN  \A i \in 1..Len(b) :
            /\ IsMeanOfWindow(SMA_50(b, i), C, 50, i)
            /\ IsMeanOfWindow(SMA_200(b, i), C, 200, i)
            /\ IsMeanOfWindow(Vol_SMA_20(b, i), V, 20, i)
            /\ IsMeanOfWindow(BB_Middle(b, i), C, 20, i)
            /\ IsMeanOfWindow(ATR(b, i), T, 14, i)
            /\ IsHighOfWindow(High_52W(b, i), b, 252, i)
            /\ IsHighOfWindow(High_4W(b, i), b, 20, i)
            /\ IsHighOfWindow(High_2W(b, i), b, 10, i)

\* the EMA columns are defined at every row and start at their first input
EmasFromFirstRow(b) ==
    /\ \A i \in 1..Len(b) :
           /\ IsNum(EMA_20(b, i)) /\ IsNum(MACD(b, i))
           /\ IsNum(MACD_Signal(b, i)) /\ IsNum(OBV_EMA(b, i))
    /\ EMA_20(b, 1) = Close(b, 1)
    /\ MACD_Signal(b, 1) = MACD(b, 1)
    /\ OBV_EMA(b, 1) = OBV(b, 1)

\* the frame of p has just been returned by calculate_all_indicators
JustAugmented(p) == pc[p] = "augmented" /\ LastOf(p) >= 1 /\ ~Invalid(BarsOf(p))

\* C22 as stated: the windows trail, and EMA20, the MACD line, the signal line
\* and the OBV EMA are defined from the first row on, the first value of each
\* being the first value of its input, the close for the MACD line.
C22_WindowsAndEmaStart ==
    \A p \in Symbols :
        JustAugmented(p) =>
            /\ WindowsTrail(BarsOf(p))
            /\ EmasFromFirstRow(BarsOf(p))
            /\ MACD(BarsOf(p), 1) = Close(BarsOf(p), 1)

\* C22: every rolling column with window N (SMA 50 and 200, the 20-bar volume
\* mean, the Bollinger middle, ATR(14), the 252/20/10-bar highs) is undefined
\* before row N and from row N on is the mean, or the maximum, of exactly the
\* N rows that end at the row; EMA20, the signal line and the OBV EMA are
\* defined from the first row and start at the first value of their input;
\* the MACD line is defined from the first row and starts at 0, the
\* difference of two EMAs that both start at the first close.
C22_WindowsAndMacdFromZero ==
    \A p \in Symbols :
        JustAugmented(p) =>
            /\ WindowsTrail(BarsOf(p))
            /\ EmasFromFirstRow(BarsOf(p))
            /\ MACD(BarsOf(p), 1) = Real(0)

C22_Witness ==
    \E p \in Symbols :
        /\ JustAugmented(p) /\ LastOf(p) >= 252
        /\ ~notna(High_52W(BarsOf(p), 251)) /\ notna(High_52W(BarsOf(p), 252))
        /\ ~notna(ATR(BarsOf(p), 13)) /\ notna(ATR(BarsOf(p), 14))
        /\ MACD(BarsOf(p), 1) = Real(0) /\ Close(BarsOf(p), 1) # Real(0)

\* C28: every result process_stock returns carries signals, insights and
\* trend_strength, whichever operation stored the cache entry it returns: a
\* detail request that follows a screening request within the cache lifetime
\* included.
C28_ReturnedCarriesAnalysis ==
    \A symbol \in Universe, fetched \in BOOLEAN :
        LET result == Returned(cache, symbol, fetched)
        IN  result # None => AnalysisKeys \subseteq DOMAIN result[1]

\* a step that adds the Trade row of an executed order of the side
Executes(order_side) ==
    /\ Len(trades') = Len(trades) + 1
    /\ trades'[Len(trades')].order_side = order_side

\* C23: a buy is executed only when its value plus the commission of 0.1% of
\* the value is within cash_balance, and it takes exactly that sum from
\* cash_balance; cash_balance is never negative after buys and sells at
\* positive prices.
C23_BuyWithinCash ==
    /\ [](~Less(portfolio.cash_balance, Money(0)))
    /\ [][Executes("BUY") =>
            LET t == trades'[Len(trades')]
                cost == Plus(t.total_value, Over(t.total_value, Money(1000)))
            IN  /\ t.total_value = Times(t.price, Money(t.quantity))
                /\ ~Less(portfolio.cash_balance, cost)
                /\ portfolio'.cash_balance = Minus(portfolio.cash_balance, cost)]_vars

\* a buy has been rejected for its cost after another has used the cash
C23_Witness ==
    /\ reply.message = "Insufficient funds"
    /\ \E i \in DOMAIN trades : trades[i].order_side = "BUY"
    /\ Less(portfolio.cash_balance, Money(100))

\* the shares of p the executed orders of a side have moved
Shares(p, order_side) ==
    LET Q(i) == IF trades[i].symbol = p /\ trades[i].order_side = order_side
                THEN trades[i].quantity ELSE 0
    IN  SumOver(Q, 1, Len(trades))

\* C24: every stored position has a quantity above 0, the shares sold of a
\* symbol never exceed the shares bought, and the position holds what is
\* left of them: a sale of more than is held was rejected, and a position
\* sold off is removed.
C24_PositionsArePositive ==
    \A p \in Symbols :
        /\ Shares(p, "SELL") <= Shares(p, "BUY")
        /\ positions[p] # None => positions[p][1].quantity > 0
        /\ positions[p] # None =>
               positions[p][1].quantity = Shares(p, "BUY") - Shares(p, "SELL")
        /\ positions[p] = None => Shares(p, "BUY") = Shares(p, "SELL")

\* a position has been sold off and removed, another is held
C24_Witness ==
    \E p, q \in Symbols :
        /\ positions[p] = None /\ Shares(p, "BUY") = 2 /\ Shares(p, "SELL") = 2
        /\ positions[q] # None /\ Len(trades) = MaxTrades

\* C25: every stored position has total_invested = average_buy_price x
\* quantity, current_value = current_price x quantity and profit_loss =
\* current_value - total_invested, a position a limit buy has just created
\* included.
C25_PositionIdentities ==
    \A p \in Symbols :
        positions[p] # None =>
            LET position == positions[p][1]
            IN  /\ position.total_invested
                       = Times(position.average_buy_price, Money(position.quantity))
                /\ position.current_value
                       = Times(position.current_price, Money(position.quantity))
                /\ position.profit_loss
                       = Minus(position.current_value, position.total_invested)

\* C26: an order that is rejected, for any of the six reasons, adds no Trade
\* row and leaves the cash_balance, total_invested and total_profit_loss of
\* the portfolio and every position as they were.
C26_RejectedChangesNothing ==
    [][reply' # reply /\ ~reply'.success =>
           /\ reply'.message \in
                  {"Could not fetch price", "Limit price is required for LIMIT orders",
                   "Current price is above your limit price",
                   "Current price is below your limit price", "Insufficient funds",
                   "You don't own any shares", "Insufficient shares"}
           /\ trades' = trades
           /\ portfolio' = portfolio
           /\ positions' = positions]_vars

\* a sale of more shares than are held has been rejected
C26_Witness ==
    /\ reply.message = "Insufficient shares"
    /\ \E p \in Symbols : positions[p] # None
    /\ trades # <<>>

\* the sum of average_buy_price x quantity over the positions
InvestedInPositions ==
    SumOfMoney(Held, [p \in Symbols |->
        IF p \in Held
        THEN Times(positions[p][1].average_buy_price, Money(positions[p][1].quantity))
        ELSE Money(0)])

\* the sum of the commissions of the executed trades
CommissionsPaid ==
    SumOfMoney(DOMAIN trades, [i \in DOMAIN trades |-> trades[i].commission])

\* C27: while update_portfolio_values is not called, after any executed buys
\* and sells cash_balance + total_invested = initial_balance +
\* total_profit_loss - the commissions of all executed trades, and the
\* total_invested of the portfolio is the sum of average_buy_price x quantity
\* over its positions.
C27_BooksBalance ==
    /\ Plus(portfolio.cash_balance, portfolio.total_invested)
           = Minus(Plus(portfolio.initial_balance, portfolio.total_profit_loss),
                   CommissionsPaid)
    /\ portfolio.total_invested = InvestedInPositions

\* shares bought at two prices, one of them sold above their average price
C27_Witness ==
    /\ Len(trades) = MaxTrades
    /\ Less(Money(0), portfolio.total_profit_loss)
    /\ \E p \in Symbols :
           /\ positions[p] # None
           /\ positions[p][1].average_buy_price = Money(440)
           /\ \E i, j \in DOMAIN trades :
                  /\ trades[i].symbol = p /\ trades[j].symbol = p
                  /\ trades[i].price = Money(400) /\ trades[j].price = Money(480)

====
